---- MODULE Spec2Model ----
(***************************************************************************)
(* Model of the semantic analyzer of the mecha schema language:            *)
(* Schema::check and its passes (crates/mecha-compiler/src/semantic.rs).   *)
(*                                                                         *)
(* A behaviour is one call of check on one parsed schema (Spec), or two    *)
(* calls in a row on the same schema (SpecTwice).  The passes that iterate *)
(* a std HashMap visit its entries in an order the program does not        *)
(* control; the model takes every order.                                   *)
(***************************************************************************)
EXTENDS Integers, Sequences, FiniteSets, TLC

(***************************************************************************)
(* Bounds of the input space.                                              *)
(***************************************************************************)
MaxTables == 3
MaxCols == 2

None == "None"
TableNames == {"bar", "foo", "hey"}
ColSeq == <<"id", "name", "time">>
ColNames == {ColSeq[i] : i \in 1..Len(ColSeq)}

\* str::cmp on the table names of the model (sort_by_key in the cycle pass).
NameRank(n) == CASE n = "bar" -> 1 [] n = "foo" -> 2 [] n = "hey" -> 3 [] OTHER -> 4

(***************************************************************************)
(* AST (crates/cores/src/ast.rs).  A span is the position of the node in   *)
(* the tree: every occurrence is a distinct node with its own span.        *)
(***************************************************************************)
Span(node, at) == [node |-> node, at |-> at]

NoReference == [some |-> FALSE, operator |-> None, table |-> None, column |-> None]
ReferenceDef(t, c) == [some |-> TRUE, operator |-> "OneToMany", table |-> t, column |-> c]

NoIndexes == [some |-> FALSE, items |-> <<>>]
SomeIndexes(items) == [some |-> TRUE, items |-> items]
Single(id) == [kind |-> "Single", ids |-> <<id>>]
Composite(ids) == [kind |-> "Composite", ids |-> ids]

ColumnDef(id, reference, ti, ci) ==
    [id |-> id, typ |-> "string", attribute |-> None, reference |-> reference,
     span |-> Span("column", <<ti, ci>>)]

\* the column with another type, attribute and reference operator
Typed(column, typ, attribute, operator) ==
    [column EXCEPT !.typ = typ,
                   !.attribute = attribute,
                   !.reference.operator = IF column.reference.some THEN operator ELSE None]

ColumnTypes == {"string", "uuid"}
ColumnAttributes == {None, "Primary", "Unique"}
RefOperators == {"OneToMany", "OneToOne", "ManyToMany"}

TableDef(id, is_abstract, extended_by, columns, indexes) ==
    [id |-> id, is_abstract |-> is_abstract, extended_by |-> extended_by,
     columns |-> columns, indexes |-> indexes]

(***************************************************************************)
(* The schemas check is run on.  Three families:                           *)
(*  - every table header (name, abstract flag, extends clause) over up to  *)
(*    MaxTables tables, each table with one column named by its position;  *)
(*  - a menu of one- and two-table headers with every body (columns,       *)
(*    indexes section, reference on the first column) of a menu;           *)
(*  - the three-table chain foo -> bar -> hey declared in every order,     *)
(*    each table with one column of any name, the leaf with an indexes     *)
(*    section and a reference.                                             *)
(***************************************************************************)
Header(id, is_abstract, extended_by) ==
    [id |-> id, is_abstract |-> is_abstract, extended_by |-> extended_by]

Headers == [id : TableNames, is_abstract : BOOLEAN, extended_by : TableNames \cup {None}]

SeqsUpTo(S, n) == UNION {[1..k -> S] : k \in 1..n}

Body(cols, indexes, ref) == [cols |-> cols, indexes |-> indexes, ref |-> ref]

MkTable(h, b, ti) ==
    TableDef(h.id, h.is_abstract, h.extended_by,
             [ci \in 1..Len(b.cols) |->
                 ColumnDef(b.cols[ci], IF ci = 1 THEN b.ref ELSE NoReference, ti, ci)],
             b.indexes)

MkSchema(hs, bs) == [ti \in 1..Len(hs) |-> MkTable(hs[ti], bs[ti], ti)]

PosCol(i) == ColSeq[((i - 1) % Len(ColSeq)) + 1]

TopologySchema(hs) ==
    MkSchema(hs, [ti \in 1..Len(hs) |-> Body(<<PosCol(ti)>>, NoIndexes, NoReference)])

IndexMenu ==
    {NoIndexes,
     SomeIndexes(<<Single("id"), Single("name")>>),
     SomeIndexes(<<Composite(<<"name", "id">>)>>),
     SomeIndexes(<<Composite(<<"id", "time">>), Single("time")>>)}

RefMenu ==
    {NoReference, ReferenceDef("bar", "id"), ReferenceDef("foo", "name"), ReferenceDef("hey", "id")}

Bodies == {Body(cols, ix, ref) :
              cols \in SeqsUpTo({"id", "name"}, MaxCols), ix \in IndexMenu, ref \in RefMenu}

HeaderMenu ==
    {<<Header("foo", FALSE, None)>>,
     <<Header("bar", TRUE, None), Header("foo", FALSE, "bar")>>,
     <<Header("foo", FALSE, "bar"), Header("bar", TRUE, None)>>,
     <<Header("bar", FALSE, None), Header("foo", FALSE, None)>>,
     <<Header("bar", TRUE, "foo"), Header("foo", TRUE, "bar")>>,
     <<Header("bar", FALSE, None), Header("foo", FALSE, "bar")>>,
     <<Header("foo", FALSE, None), Header("foo", FALSE, None)>>}

Permutations3 ==
    {<<1, 2, 3>>, <<1, 3, 2>>, <<2, 1, 3>>, <<2, 3, 1>>, <<3, 1, 2>>, <<3, 2, 1>>}

ChainHeaders ==
    <<Header("hey", TRUE, None), Header("bar", TRUE, "hey"), Header("foo", FALSE, "bar")>>

ChainLeafIndexes ==
    {NoIndexes, SomeIndexes(<<Composite(<<"id", "name", "time">>)>>), SomeIndexes(<<Single("time")>>)}

ChainLeafRefs == {NoReference, ReferenceDef("bar", "id"), ReferenceDef("foo", "time")}

ChainSchema(p, cs, ix, ref) ==
    MkSchema([ti \in 1..3 |-> ChainHeaders[p[ti]]],
             [ti \in 1..3 |->
                 IF p[ti] = 3 THEN Body(<<cs[p[ti]]>>, ix, ref)
                 ELSE Body(<<cs[p[ti]]>>, NoIndexes, NoReference)])

\* schema is one of the schemas of the three families
IsInput(sch) ==
    \/ \E n \in 1..MaxTables : \E hs \in [1..n -> Headers] : sch = TopologySchema(hs)
    \/ \E hs \in HeaderMenu : \E bs \in [1..Len(hs) -> Bodies] : sch = MkSchema(hs, bs)
    \/ \E p \in Permutations3 : \E cs \in [1..3 -> ColNames] :
          \E ix \in ChainLeafIndexes : \E ref \in ChainLeafRefs :
             sch = ChainSchema(p, cs, ix, ref)

(***************************************************************************)
(* Diagnostics and results (CheckResult).                                  *)
(***************************************************************************)
Rich(span, msg) == [span |-> span, msg |-> msg]

NoResult == [tag |-> "None", errs |-> <<>>]
Ok == [tag |-> "Ok", errs |-> <<>>]
Err(errs) == [tag |-> "Err", errs |-> errs]
Panic == [tag |-> "Panic", errs |-> <<>>]

VARIABLES
    schema,      \* self.tables
    pc,          \* the pass check is in
    table_map,   \* collect_tables: name -> index of the table in self.tables
    pending,     \* entries of the HashMap iteration in progress not yet visited
    sorted_at,   \* check_cyclic_extension: position in sorted_tables
    walking,     \* check_cyclic_extension: inside the while loop of a walk
    checked,     \* check_cyclic_extension: checked
    visited,     \* check_cyclic_extension: visited
    stack,       \* check_cyclic_extension: stack (indexes of tables)
    popped,      \* names popped from the stack so far, in order
    context,     \* build_extension_context: name -> set of flattened ColumnDef
    result,      \* what check returned
    previous,    \* what the previous call of check on this schema returned
    entry,       \* the function that runs the front end: compile, on_change, flush
    origin,      \* where the source comes from
    source,      \* src: the characters of the source
    lexed,       \* the tokens of the source
    parsed,      \* what parse returned
    reported,    \* the diagnostics printed or published
    written,     \* the output file was written
    active,      \* which of two calls of check the state above is the frame of
    other,       \* the frame of the call that is not running
    document_map,\* Backend.document_map: uri -> text
    received,    \* the did_open and did_change notifications received so far
    handling,    \* the uri of the notification on_change is running for
    published    \* the calls of client.publish_diagnostics so far, in order

\* the state of check without pc
check_vars == <<schema, table_map, pending, sorted_at, walking, checked, visited,
                stack, popped, context, result, previous>>

front == <<entry, origin, source, lexed, parsed, reported, written>>

\* the calls of check in progress
calls == <<active, other>>

\* the state of the editor service
editor == <<document_map, received, handling, published>>

vars == <<schema, pc, table_map, pending, sorted_at, walking, checked, visited,
          stack, popped, context, result, previous, front, calls, editor>>

\* the frame of a call of check: self and the locals of check and of the
\* functions it calls
Frame(self, at, map, rest, sorted, walk, chk, vis, stk, pop, ctx, res) ==
    [schema |-> self, pc |-> at, table_map |-> map, pending |-> rest, sorted_at |-> sorted,
     walking |-> walk, checked |-> chk, visited |-> vis, stack |-> stk, popped |-> pop,
     context |-> ctx, result |-> res]

\* no second call
NoCall == [pc |-> "none"]

\* the diagnostics handed to diagnose or to publish_diagnostics
NotReported == [done |-> FALSE, errs |-> <<>>]
Reported(errs) == [done |-> TRUE, errs |-> errs]

EmptyMap == <<>>

Names(S) == {c.id : c \in S}

Range(f) == {f[x] : x \in DOMAIN f}

Min(S) == CHOOSE x \in S : \A y \in S : x <= y

\* every order a collection of distinct values can be iterated in
AllOrders(S) ==
    {o \in [1..Cardinality(S) -> S] : \A i, j \in 1..Cardinality(S) : i # j => o[i] # o[j]}

(***************************************************************************)
(* collect_tables: name -> table, failing at the first table whose name is *)
(* already in the map.                                                     *)
(***************************************************************************)
RECURSIVE collect_tables_from(_, _, _)
collect_tables_from(tables, i, map) ==
    IF i > Len(tables) THEN [ok |-> TRUE, map |-> map, errs |-> <<>>]
    ELSE LET table_name == tables[i].id IN
         IF table_name \in DOMAIN map
         THEN LET prev_table == map[table_name] IN
              [ok |-> FALSE, map |-> map,
               errs |-> <<Rich(Span("table.id", <<prev_table>>),
                               <<"table is declared here", tables[prev_table].id>>),
                          Rich(Span("table.id", <<i>>), <<"but redeclared here">>)>>]
         ELSE collect_tables_from(tables, i + 1, map @@ (table_name :> i))

\* collect_tables without the redeclaration check: a later table replaces the entry
RECURSIVE collect_tables_overwriting_from(_, _, _)
collect_tables_overwriting_from(tables, i, map) ==
    IF i > Len(tables) THEN [ok |-> TRUE, map |-> map, errs |-> <<>>]
    ELSE collect_tables_overwriting_from(
             tables, i + 1,
             [n \in DOMAIN map \cup {tables[i].id} |-> IF n = tables[i].id THEN i ELSE map[n]])

collect_tables_overwriting(tables) == collect_tables_overwriting_from(tables, 1, EmptyMap)

\* collect_tables with its diagnostics in the reverse order
collect_tables_redeclared_first(tables) ==
    [collect_tables_from(tables, 1, EmptyMap) EXCEPT
        !.errs = IF @ = <<>> THEN <<>> ELSE <<@[2], @[1]>>]

collect_tables(tables) == collect_tables_from(tables, 1, EmptyMap)

(***************************************************************************)
(* check_extension: the body of its loop for one entry of table_map; the   *)
(* diagnostics it returns with, <<>> when the entry is fine.               *)
(***************************************************************************)
\* check_extension without the is_abstract test
check_extension_any_parent(tables, map, table) ==
    LET parent_name == tables[table].extended_by IN
    IF parent_name = None THEN <<>>
    ELSE IF parent_name \notin DOMAIN map
    THEN <<Rich(Span("table.extended_by", <<table>>), <<"table is not existed", parent_name>>)>>
    ELSE <<>>

\* check_extension without the test that the parent is declared
check_extension_parent_unchecked(tables, map, table) ==
    LET parent_name == tables[table].extended_by IN
    IF parent_name = None THEN <<>>
    ELSE IF parent_name \notin DOMAIN map THEN <<>>
    ELSE LET parent_table == map[parent_name] IN
         IF ~tables[parent_table].is_abstract
         THEN <<Rich(Span("table", <<table>>), <<"table is referenced here", parent_name>>),
                Rich(Span("table", <<parent_table>>), <<"but it's not abstract">>)>>
         ELSE <<>>

\* check_extension with the diagnostic at the parent before the one at the child
check_extension_parent_first(tables, map, table) ==
    LET parent_name == tables[table].extended_by IN
    IF parent_name = None THEN <<>>
    ELSE IF parent_name \notin DOMAIN map
    THEN <<Rich(Span("table.extended_by", <<table>>), <<"table is not existed", parent_name>>)>>
    ELSE LET parent_table == map[parent_name] IN
         IF ~tables[parent_table].is_abstract
         THEN <<Rich(Span("table", <<parent_table>>), <<"but it's not abstract">>),
                Rich(Span("table", <<table>>), <<"table is referenced here", parent_name>>)>>
         ELSE <<>>

check_extension(tables, map, table) ==
    LET parent_name == tables[table].extended_by IN
    IF parent_name = None THEN <<>>
    ELSE IF parent_name \notin DOMAIN map
    THEN <<Rich(Span("table.extended_by", <<table>>), <<"table is not existed", parent_name>>)>>
    ELSE LET parent_table == map[parent_name] IN
         IF ~tables[parent_table].is_abstract
         THEN <<Rich(Span("table", <<table>>), <<"table is referenced here", parent_name>>),
                Rich(Span("table", <<parent_table>>), <<"but it's not abstract">>)>>
         ELSE <<>>

(***************************************************************************)
(* check_cyclic_extension.                                                 *)
(***************************************************************************)
\* sorted_tables in the reverse of the order of the names
sorted_tables_descending(tables, map) ==
    CHOOSE s \in AllOrders(Range(map)) :
        \A i, j \in 1..Len(s) : i < j => NameRank(tables[s[i]].id) >= NameRank(tables[s[j]].id)

\* table_map.values() sorted by table name
sorted_tables(tables, map) ==
    CHOOSE s \in AllOrders(Range(map)) :
        \A i, j \in 1..Len(s) : i < j => NameRank(tables[s[i]].id) <= NameRank(tables[s[j]].id)

\* walk_step taking a table met again on the walk for a table known to be safe
walk_step_revisit_safe(tables, map, chk, vis, cur_table) ==
    LET next_table_name == tables[cur_table].extended_by IN
    IF next_table_name = None THEN [kind |-> "continue"]
    ELSE IF next_table_name \in chk \cup vis THEN [kind |-> "continue"]
    ELSE IF next_table_name \notin DOMAIN map THEN [kind |-> "panic"]
    ELSE [kind |-> "push", table |-> map[next_table_name]]

\* The body of the while loop after cur_table was popped and inserted in visited
\* (vis is visited after the insert).
walk_step(tables, map, chk, vis, cur_table) ==
    LET next_table_name == tables[cur_table].extended_by IN
    IF next_table_name = None THEN [kind |-> "continue"]
    ELSE IF next_table_name \in chk THEN [kind |-> "continue"]
    ELSE IF next_table_name \notin DOMAIN map THEN [kind |-> "panic"]
    ELSE LET next_table == map[next_table_name] IN
         IF next_table_name \in vis
         THEN [kind |-> "err",
               errs |-> <<Rich(Span("table", <<next_table>>),
                               <<"cyclic reference happens at", next_table_name>>)>>]
         ELSE [kind |-> "push", table |-> next_table]

(***************************************************************************)
(* build_extension_context: the flattening of one table.                   *)
(***************************************************************************)
\* HashMap::insert
insert(m, key, value) == [k \in DOMAIN m \cup {key} |-> IF k = key THEN value ELSE m[k]]

RECURSIVE own_columns(_, _, _)
own_columns(columns, i, extension_columns) ==
    IF i > Len(columns) THEN extension_columns
    ELSE own_columns(columns, i + 1, insert(extension_columns, columns[i].id, columns[i]))

\* the closure check_column, on parent_columns from its i-th element on
RECURSIVE check_column(_, _, _)
check_column(parent_columns, i, extension_columns) ==
    IF i > Len(parent_columns)
    THEN [kind |-> "ok", columns |-> extension_columns, errs |-> <<>>]
    ELSE LET parent_column == parent_columns[i] IN
         IF parent_column.id \in DOMAIN extension_columns
         THEN [kind |-> "err", columns |-> extension_columns,
               errs |-> <<Rich(parent_column.span, <<"column is redeclared", parent_column.id>>)>>]
         ELSE check_column(parent_columns, i + 1,
                           insert(extension_columns, parent_column.id, parent_column))

\* walk_chain stopping after the columns of the direct parent
walk_chain_one_level(tables, map, ctx, current_table, extension_columns) ==
    LET parent_table_name == tables[current_table].extended_by IN
    IF parent_table_name = None
    THEN {[kind |-> "ok", columns |-> extension_columns, errs |-> <<>>]}
    ELSE IF parent_table_name \in DOMAIN ctx
    THEN {check_column(parent_columns, 1, extension_columns) :
              parent_columns \in AllOrders(ctx[parent_table_name])}
    ELSE IF parent_table_name \notin DOMAIN map
    THEN {[kind |-> "panic", columns |-> extension_columns, errs |-> <<>>]}
    ELSE {check_column(tables[map[parent_table_name]].columns, 1, extension_columns)}

\* the loop over the extended_by chain; the set of its possible outcomes (the
\* cached Vec of a parent comes out of HashMap::values in any order)
RECURSIVE walk_chain(_, _, _, _, _)
walk_chain(tables, map, ctx, current_table, extension_columns) ==
    LET parent_table_name == tables[current_table].extended_by IN
    IF parent_table_name = None
    THEN {[kind |-> "ok", columns |-> extension_columns, errs |-> <<>>]}
    ELSE IF parent_table_name \in DOMAIN ctx
    THEN {check_column(parent_columns, 1, extension_columns) :
              parent_columns \in AllOrders(ctx[parent_table_name])}
    ELSE IF parent_table_name \notin DOMAIN map
    THEN {[kind |-> "panic", columns |-> extension_columns, errs |-> <<>>]}
    ELSE LET parent_table == map[parent_table_name]
             r == check_column(tables[parent_table].columns, 1, extension_columns)
         IN IF r.kind = "ok" THEN walk_chain(tables, map, ctx, parent_table, r.columns)
            ELSE {r}

flatten_table(tables, map, ctx, table) ==
    walk_chain(tables, map, ctx, table, own_columns(tables[table].columns, 1, EmptyMap))

(***************************************************************************)
(* check: index validation.                                                *)
(***************************************************************************)
\* item_idents checking a Composite like a Single: its first identifier only
item_idents_first_only(index, ti, k) ==
    <<[id |-> index.ids[1], span |-> Span("index.id", <<ti, k, 1>>)]>>

\* the identifiers of one Index, each with its span, in the order the match visits them
item_idents(index, ti, k) ==
    [m \in 1..Len(index.ids) |-> [id |-> index.ids[m], span |-> Span("index.id", <<ti, k, m>>)]]

RECURSIVE index_idents(_, _, _)
index_idents(indexes, ti, k) ==
    IF k > Len(indexes) THEN <<>>
    ELSE item_idents(indexes[k], ti, k) \o index_idents(indexes, ti, k + 1)

\* check_table_indexes resolving against the table's own columns only
check_table_indexes_own_columns(tables, ctx, ti) ==
    LET table == tables[ti] IN
    IF ~table.indexes.some THEN [kind |-> "ok", errs |-> <<>>]
    ELSE LET valid_column_names == {table.columns[c].id : c \in DOMAIN table.columns}
             ids == index_idents(table.indexes.items, ti, 1)
             missing == {n \in 1..Len(ids) : ids[n].id \notin valid_column_names}
         IN IF missing = {} THEN [kind |-> "ok", errs |-> <<>>]
            ELSE LET id == ids[Min(missing)] IN
                 [kind |-> "err",
                  errs |-> <<Rich(id.span, <<"indexed column does not exist in table",
                                             id.id, table.id>>)>>]

\* check_table_indexes reporting every identifier that does not resolve
check_table_indexes_batching(tables, ctx, ti) ==
    LET table == tables[ti] IN
    IF ~table.indexes.some THEN [kind |-> "ok", errs |-> <<>>]
    ELSE IF table.id \notin DOMAIN ctx THEN [kind |-> "panic", errs |-> <<>>]
    ELSE LET valid_column_names == Names(ctx[table.id])
             ids == index_idents(table.indexes.items, ti, 1)
             missing == SelectSeq(ids, LAMBDA id : id.id \notin valid_column_names)
         IN IF missing = <<>> THEN [kind |-> "ok", errs |-> <<>>]
            ELSE [kind |-> "err",
                  errs |-> [n \in 1..Len(missing) |->
                              Rich(missing[n].span, <<"indexed column does not exist in table",
                                                      missing[n].id, table.id>>)]]

\* the body of the first loop of check for one table
check_table_indexes(tables, ctx, ti) ==
    LET table == tables[ti] IN
    IF ~table.indexes.some THEN [kind |-> "ok", errs |-> <<>>]
    ELSE IF table.id \notin DOMAIN ctx THEN [kind |-> "panic", errs |-> <<>>]
    ELSE LET valid_column_names == Names(ctx[table.id])
             ids == index_idents(table.indexes.items, ti, 1)
             missing == {n \in 1..Len(ids) : ids[n].id \notin valid_column_names}
         IN IF missing = {} THEN [kind |-> "ok", errs |-> <<>>]
            ELSE LET id == ids[Min(missing)] IN
                 [kind |-> "err",
                  errs |-> <<Rich(id.span, <<"indexed column does not exist in table",
                                             id.id, table.id>>)>>]

RECURSIVE validate_indexes(_, _, _)
validate_indexes(tables, ctx, ti) ==
    IF ti > Len(tables) THEN [kind |-> "ok", errs |-> <<>>]
    ELSE LET r == check_table_indexes(tables, ctx, ti) IN
         IF r.kind = "ok" THEN validate_indexes(tables, ctx, ti + 1) ELSE r

(***************************************************************************)
(* check: reference validation.                                            *)
(***************************************************************************)
\* check_reference resolving the table but not the column
check_reference_table_only(ctx, column, ti, ci) ==
    LET reference == column.reference IN
    IF ~reference.some THEN <<>>
    ELSE IF reference.table \notin DOMAIN ctx
    THEN <<Rich(Span("reference", <<ti, ci>>),
                <<"table is not exist in the schema", reference.table>>)>>
    ELSE <<>>

\* check_reference reporting a missing column at the span of the whole reference
check_reference_whole_span(ctx, column, ti, ci) ==
    LET reference == column.reference IN
    IF ~reference.some THEN <<>>
    ELSE IF reference.table \notin DOMAIN ctx
    THEN <<Rich(Span("reference", <<ti, ci>>),
                <<"table is not exist in the schema", reference.table>>)>>
    ELSE IF reference.column \notin Names(ctx[reference.table])
    THEN <<Rich(Span("reference", <<ti, ci>>),
                <<"column is not existed in the table", reference.column, reference.table>>)>>
    ELSE <<>>

\* the body of the second loop of check for one column; <<>> when it is fine
check_reference(ctx, column, ti, ci) ==
    LET reference == column.reference IN
    IF ~reference.some THEN <<>>
    ELSE IF reference.table \notin DOMAIN ctx
    THEN <<Rich(Span("reference", <<ti, ci>>),
                <<"table is not exist in the schema", reference.table>>)>>
    ELSE IF reference.column \notin Names(ctx[reference.table])
    THEN <<Rich(Span("reference.column", <<ti, ci>>),
                <<"column is not existed in the table", reference.column, reference.table>>)>>
    ELSE <<>>

RECURSIVE validate_references(_, _, _, _)
validate_references(tables, ctx, ti, ci) ==
    IF ti > Len(tables) THEN <<>>
    ELSE IF ci > Len(tables[ti].columns) THEN validate_references(tables, ctx, ti + 1, 1)
    ELSE LET errs == check_reference(ctx, tables[ti].columns[ci], ti, ci) IN
         IF errs # <<>> THEN errs ELSE validate_references(tables, ctx, ti, ci + 1)

(***************************************************************************)
(* The lexer (src/lexer.rs).  A source is a sequence of characters, a span *)
(* a pair <<start, end>> of byte offsets, end exclusive.                   *)
(***************************************************************************)
Letters ==
    {"a", "b", "c", "d", "e", "f", "g", "h", "i", "j", "k", "l", "m", "n", "o", "p", "q",
     "r", "s", "t", "u", "v", "w", "x", "y", "z",
     "A", "B", "C", "D", "E", "F", "G", "H", "I", "J", "K", "L", "M", "N", "O", "P", "Q",
     "R", "S", "T", "U", "V", "W", "X", "Y", "Z"}

Digits == {"0", "1", "2", "3", "4", "5", "6", "7", "8", "9"}

\* [a-zA-Z0-9_]
IdentChars == Letters \cup Digits \cup {"_"}

\* [ \t\f\n]
WhitespaceChars == {" ", "\t", "\f", "\n"}

\* &str to String: the characters of a slice as one string
RECURSIVE Join(_)
Join(chars) == IF chars = <<>> THEN "" ELSE chars[1] \o Join(Tail(chars))

\* the number of characters of src from p on that are in class
RECURSIVE RunLen(_, _, _)
RunLen(src, p, class) ==
    IF p > Len(src) \/ src[p] \notin class THEN 0 ELSE 1 + RunLen(src, p + 1, class)

\* #[token(..)] of the words: a word that is no keyword matches the Id regex only
WordToken(text) ==
    CASE text = "abstract" -> "Abstract"
      [] text = "table" -> "Table"
      [] text = "extends" -> "Extends"
      [] text = "primary" -> "Primary"
      [] text = "unique" -> "Unique"
      [] text = "ref" -> "Ref"
      [] text = "indexes" -> "Indexes"
      [] OTHER -> "Id"

\* #[token(..)] of the punctuation and of the reference operators
SymbolToken(text) ==
    CASE text = "{" -> "LeftBrace"
      [] text = "}" -> "RightBrace"
      [] text = "(" -> "LeftParen"
      [] text = ")" -> "RightParen"
      [] text = "." -> "Dot"
      [] text = "," -> "Comma"
      [] text = ":" -> "Colon"
      [] text = "=>" -> "RefOneToMany"
      [] text = "==" -> "RefOneToOne"
      [] text = "<>" -> "RefManyToMany"
      [] OTHER -> "Err"

\* the longest match of the rules of Token at p (a keyword wins over Id on
\* the same length); len 0 and kind Err when no rule matches there
match(src, p) ==
    LET c == src[p] IN
    IF c \in Letters
    THEN LET n == RunLen(src, p, IdentChars) IN
         [kind |-> WordToken(Join(SubSeq(src, p, p + n - 1))), len |-> n]
    ELSE IF p < Len(src) /\ SymbolToken(c \o src[p + 1]) # "Err"
    THEN [kind |-> SymbolToken(c \o src[p + 1]), len |-> 2]
    ELSE IF SymbolToken(c) # "Err" THEN [kind |-> SymbolToken(c), len |-> 1]
    ELSE IF c \in WhitespaceChars
    THEN [kind |-> "Whitespace", len |-> RunLen(src, p, WhitespaceChars)]
    ELSE [kind |-> "Err", len |-> 0]

\* the length of the stretch from p on in which no rule matches at any position
RECURSIVE UnmatchedLen(_, _)
UnmatchedLen(src, p) ==
    IF p > Len(src) \/ match(src, p).kind # "Err" THEN 0 ELSE 1 + UnmatchedLen(src, p + 1)

\* (Token, SimpleSpan); name is the slice of an Id, "" for the other tokens
Token(kind, name, start, end) == [kind |-> kind, name |-> name, span |-> <<start, end>>]

\* next_token yielding the whitespace it matched as a token
next_token_keeping_whitespace(src, from) ==
    LET p == from + 1 IN
    IF p > Len(src) THEN {}
    ELSE LET m == match(src, p) IN
         IF m.kind = "Err"
         THEN {Token("Err", "", p - 1, p - 1 + k) : k \in 1..UnmatchedLen(src, p)}
         ELSE {Token(m.kind, "", p - 1, p - 1 + m.len)}

\* One call of next() on Token::lexer(src).spanned() with the lexer at byte
\* offset from, mapped as tokenize maps it: the tokens it can yield, none at
\* the end of the source.  Whitespace is skipped.  Where no rule matches the
\* lexer yields Err(()), turned into Token::Err, with a span of at least one
\* character inside the unmatched stretch and goes on behind it; how far
\* one error reaches is left to the generated lexer, so every length is
\* taken.
next_token(src, from) ==
    LET start == from + 1
        p == IF start <= Len(src) /\ match(src, start).kind = "Whitespace"
             THEN start + match(src, start).len
             ELSE start
    IN IF p > Len(src) THEN {}
       ELSE LET m == match(src, p) IN
            IF m.kind = "Err"
            THEN {Token("Err", "", p - 1, p - 1 + k) : k \in 1..UnmatchedLen(src, p)}
            ELSE {Token(m.kind,
                        IF m.kind = "Id" THEN Join(SubSeq(src, p, p + m.len - 1)) ELSE "",
                        p - 1, p - 1 + m.len)}

(***************************************************************************)
(* The parser (src/parser.rs).  A parser takes the tokens and the position *)
(* of the next token and returns whether it matched, the position behind   *)
(* what it consumed, its output, and the furthest position at which one of *)
(* its alternatives failed (0 when none did): the position the reported    *)
(* error is taken from.  The combinators then, then_ignore and ignore_then *)
(* take the result of the parsers before them; the outputs of a chain are  *)
(* collected in a tuple, from which the closure of map_with (an operator   *)
(* of its own here) builds the node.                                       *)
(***************************************************************************)
Max(a, b) == IF a >= b THEN a ELSE b

Matched(pos, far, value) == [ok |-> TRUE, pos |-> pos, far |-> far, value |-> value]

Failed(far) == [ok |-> FALSE, pos |-> 0, far |-> far, value |-> <<>>]

\* the start of a chain at pos: nothing consumed, no output
Start(pos) == Matched(pos, 0, <<>>)

\* a.then(b), b run where a ended: the output of b joins the tuple
then(a, b(_, _), tokens) ==
    IF ~a.ok THEN a
    ELSE LET r == b(tokens, a.pos) IN
         IF r.ok THEN Matched(r.pos, Max(a.far, r.far), Append(a.value, r.value))
         ELSE Failed(Max(a.far, r.far))

\* a.then_ignore(b): the output of b is dropped
then_ignore(a, b(_, _), tokens) ==
    IF ~a.ok THEN a
    ELSE LET r == b(tokens, a.pos) IN
         IF r.ok THEN Matched(r.pos, Max(a.far, r.far), a.value)
         ELSE Failed(Max(a.far, r.far))

\* or_not()
NoneValue == [some |-> FALSE]
SomeValue(v) == [some |-> TRUE, value |-> v]
or_not(a(_, _), tokens, pos) ==
    LET r == a(tokens, pos) IN
    IF r.ok THEN Matched(r.pos, r.far, SomeValue(r.value)) ELSE Matched(pos, r.far, NoneValue)

\* NodeSpan with its two ends exchanged
NodeSpan_reversed(tokens, from, to) == <<tokens[to - 1].span[2], tokens[from].span[1]>>

\* extra.span() of a parser that consumed the tokens from..to-1
NodeSpan(tokens, from, to) == <<tokens[from].span[1], tokens[to - 1].span[2]>>

\* select! { Token::<kind> => .. } for a kind of kinds
just(tokens, pos, kinds) ==
    IF pos <= Len(tokens) /\ tokens[pos].kind \in kinds
    THEN Matched(pos + 1, 0, tokens[pos])
    ELSE Failed(pos)

AbstractToken(tokens, pos) == just(tokens, pos, {"Abstract"})
TableToken(tokens, pos) == just(tokens, pos, {"Table"})
ExtendsToken(tokens, pos) == just(tokens, pos, {"Extends"})
LeftBraceToken(tokens, pos) == just(tokens, pos, {"LeftBrace"})
RightBraceToken(tokens, pos) == just(tokens, pos, {"RightBrace"})
LeftParenToken(tokens, pos) == just(tokens, pos, {"LeftParen"})
RightParenToken(tokens, pos) == just(tokens, pos, {"RightParen"})
RefToken(tokens, pos) == just(tokens, pos, {"Ref"})
DotToken(tokens, pos) == just(tokens, pos, {"Dot"})
CommaToken(tokens, pos) == just(tokens, pos, {"Comma"})
ColonToken(tokens, pos) == just(tokens, pos, {"Colon"})
IndexesToken(tokens, pos) == just(tokens, pos, {"Indexes"})

Ident(name, span) == [name |-> name, span |-> span]

ident_string(tokens, pos) ==
    LET t == just(tokens, pos, {"Id"}) IN
    IF ~t.ok THEN t ELSE Matched(t.pos, 0, Ident(t.value.name, t.value.span))

column_attribute_parser(tokens, pos) ==
    LET t == just(tokens, pos, {"Primary", "Unique"}) IN
    IF ~t.ok THEN t ELSE Matched(t.pos, 0, t.value.kind)

ref_operator_parser(tokens, pos) ==
    LET t == just(tokens, pos, {"RefOneToMany", "RefOneToOne", "RefManyToMany"}) IN
    IF ~t.ok THEN t
    ELSE Matched(t.pos, 0, CASE t.value.kind = "RefOneToMany" -> "OneToMany"
                             [] t.value.kind = "RefOneToOne" -> "OneToOne"
                             [] OTHER -> "ManyToMany")

ParsedReference(operator, table, column, span) ==
    [operator |-> operator, table |-> table, column |-> column, span |-> span]

\* .map_with(|((operator, table), column), extra| ReferenceDef { .. })
reference_map_with(tokens, pos, r) ==
    IF ~r.ok THEN r
    ELSE Matched(r.pos, r.far,
                 ParsedReference(r.value[1], r.value[2], r.value[3],
                                 NodeSpan(tokens, pos, r.pos)))

reference_parser(tokens, pos) ==
    reference_map_with(tokens, pos,
             then_ignore(
                 then(then_ignore(
                          then(then(then_ignore(then_ignore(Start(pos), LeftParenToken, tokens),
                                                RefToken, tokens),
                                    ref_operator_parser, tokens),
                               ident_string, tokens),
                          DotToken, tokens),
                      ident_string, tokens),
                 RightParenToken, tokens))

column_attribute_opt(tokens, pos) == or_not(column_attribute_parser, tokens, pos)

reference_opt(tokens, pos) == or_not(reference_parser, tokens, pos)

ParsedColumn(id, typ, attribute, reference, span) ==
    [id |-> id, typ |-> typ, attribute |-> attribute, reference |-> reference, span |-> span]

\* .map_with(|(((id, typ), attr_opt), ref_opt), extra| ColumnDef { .. })
column_map_with(tokens, pos, r) ==
    IF ~r.ok THEN r
    ELSE Matched(r.pos, r.far,
                 ParsedColumn(r.value[1], r.value[2], r.value[3], r.value[4],
                              NodeSpan(tokens, pos, r.pos)))

column_definition_parser(tokens, pos) ==
    column_map_with(tokens, pos,
                    then(then(then(then_ignore(then(Start(pos), ident_string, tokens),
                                               ColonToken, tokens),
                                   ident_string, tokens),
                              column_attribute_opt, tokens),
                         reference_opt, tokens))

\* separated_by(sep) behind the first item: a separator that no item
\* follows is not consumed
RECURSIVE separated_rest(_, _, _, _, _)
separated_rest(item(_, _), tokens, pos, far, items) ==
    LET r == then(then_ignore(Start(pos), CommaToken, tokens), item, tokens) IN
    IF ~r.ok THEN Matched(pos, Max(far, r.far), items)
    ELSE separated_rest(item, tokens, r.pos, Max(far, r.far), Append(items, r.value[1]))

\* item.separated_by(Comma).at_least(n).collect()
separated_by_comma(item(_, _), n, tokens, pos) ==
    LET first == item(tokens, pos) IN
    IF ~first.ok THEN (IF n = 0 THEN Matched(pos, first.far, <<>>) ELSE first)
    ELSE LET r == separated_rest(item, tokens, first.pos, first.far, <<first.value>>) IN
         IF Len(r.value) < n THEN Failed(r.far) ELSE r

column_list_parser(tokens, pos) == separated_by_comma(column_definition_parser, 1, tokens, pos)

ParsedSingle(id, span) == [kind |-> "Single", ids |-> <<id>>, span |-> span]

ParsedComposite(ids, span) == [kind |-> "Composite", ids |-> ids, span |-> span]

ident_list_parser(tokens, pos) == separated_by_comma(ident_string, 2, tokens, pos)

\* .map_with(|ids, extra| Index::Composite(ids, extra.span()))
composite_map_with(tokens, pos, r) ==
    IF ~r.ok THEN r
    ELSE Matched(r.pos, r.far, ParsedComposite(r.value[1], NodeSpan(tokens, pos, r.pos)))

composite_index_parser(tokens, pos) ==
    composite_map_with(tokens, pos,
                       then_ignore(then(then_ignore(Start(pos), LeftParenToken, tokens),
                                        ident_list_parser, tokens),
                                   RightParenToken, tokens))

\* .map_with(|id, extra| Index::Single(id, extra.span()))
single_map_with(id) ==
    IF ~id.ok THEN id ELSE Matched(id.pos, 0, ParsedSingle(id.value, id.value.span))

single_index_parser(tokens, pos) == single_map_with(ident_string(tokens, pos))

\* a.or(b)
or(a(_, _), b(_, _), tokens, pos) ==
    LET first == a(tokens, pos)
        second == b(tokens, pos)
    IN IF first.ok THEN first
       ELSE IF second.ok THEN Matched(second.pos, first.far, second.value)
       ELSE Failed(Max(first.far, second.far))

index_item_parser(tokens, pos) ==
    or(composite_index_parser, single_index_parser, tokens, pos)

index_list_parser(tokens, pos) == separated_by_comma(index_item_parser, 1, tokens, pos)

\* the one output of a chain
only(r) == IF ~r.ok THEN r ELSE Matched(r.pos, r.far, r.value[1])

index_section_parser(tokens, pos) ==
    only(then_ignore(then(then_ignore(then_ignore(Start(pos), IndexesToken, tokens),
                                      LeftBraceToken, tokens),
                          index_list_parser, tokens),
                     RightBraceToken, tokens))

index_section_opt(tokens, pos) == or_not(index_section_parser, tokens, pos)

\* the indexes section left out of the table rule
no_index_section(tokens, pos) == Matched(pos, 0, NoneValue)

abstract_flag(tokens, pos) == or_not(AbstractToken, tokens, pos)

\* select! { Token::Extends => () }.ignore_then(ident_string())
extends_ident(tokens, pos) ==
    only(then(then_ignore(Start(pos), ExtendsToken, tokens), ident_string, tokens))

extends_clause(tokens, pos) == or_not(extends_ident, tokens, pos)

\* TableDef { id, is_abstract, columns, extended_by, span }: the output of
\* the indexes section is bound to _indexes_opt and not stored
ParsedTable(id, is_abstract, columns, extended_by, span) ==
    [id |-> id, is_abstract |-> is_abstract, columns |-> columns,
     extended_by |-> extended_by, span |-> span]

\* .map_with(|((((is_abstract, ident), extends), columns), _indexes_opt), extra|
\*           TableDef { .. })
table_map_with(tokens, pos, r) ==
    IF ~r.ok THEN r
    ELSE Matched(r.pos, r.far,
                 ParsedTable(r.value[2], r.value[1].some, r.value[4], r.value[3],
                             NodeSpan(tokens, pos, r.pos)))

\* the table rule with the parser indexes for what stands between the
\* columns and the closing brace
table_rule(indexes(_, _), tokens, pos) ==
    table_map_with(tokens, pos,
             then_ignore(
                 then(then(then_ignore(
                               then(then(then_ignore(then(Start(pos), abstract_flag, tokens),
                                                     TableToken, tokens),
                                         ident_string, tokens),
                                    extends_clause, tokens),
                               LeftBraceToken, tokens),
                           column_list_parser, tokens),
                      indexes, tokens),
                 RightBraceToken, tokens))

\* table_parser without the optional indexes section before the closing brace
table_parser_no_indexes(tokens, pos) == table_rule(no_index_section, tokens, pos)

table_parser(tokens, pos) == table_rule(index_section_opt, tokens, pos)

\* item.repeated().collect(): items until one fails
RECURSIVE repeated(_, _, _, _, _)
repeated(item(_, _), tokens, pos, far, items) ==
    LET r == item(tokens, pos) IN
    IF ~r.ok THEN Matched(pos, Max(far, r.far), items)
    ELSE repeated(item, tokens, r.pos, Max(far, r.far), Append(items, r.value))

ParsedSchema(tables, span) == [name |-> "main.mecha", tables |-> tables, span |-> span]

\* schema_map_with without then_ignore(end())
schema_map_with_no_end(tokens, tables) ==
    IF Len(tables.value) < 1 THEN Failed(tables.far)
    ELSE Matched(tables.pos, tables.far,
                 ParsedSchema(tables.value, NodeSpan(tokens, 1, tables.pos)))

\* .at_least(1) .then_ignore(end()) .map_with(|table, extra| Schema { .. })
\* on the output of table_parser().repeated()
schema_map_with(tokens, tables) ==
    IF Len(tables.value) < 1 THEN Failed(tables.far)
    ELSE IF tables.pos <= Len(tokens) THEN Failed(Max(tables.far, tables.pos))
    ELSE Matched(tables.pos, tables.far,
                 ParsedSchema(tables.value, NodeSpan(tokens, 1, tables.pos)))

schema_parser(tokens) == schema_map_with(tokens, repeated(table_parser, tokens, 1, 0, <<>>))

\* the span handed to the stream for the end of input: (0..src.len())
EoiSpan(len) == <<0, len>>

\* Result<Schema, Vec<Rich>>
NotParsed == [tag |-> "None", schema |-> <<>>, errs |-> <<>>]
ParseOk(sch) == [tag |-> "Ok", schema |-> sch, errs |-> <<>>]
ParseErr(errs) == [tag |-> "Err", schema |-> <<>>, errs |-> errs]

\* into_result refusing a Schema in which two tables have the same name
into_result_unique_names(tokens, len, r) ==
    IF /\ r.ok
       /\ \A i, j \in 1..Len(r.value.tables) :
             r.value.tables[i].id.name = r.value.tables[j].id.name => i = j
    THEN ParseOk(r.value)
    ELSE ParseErr(<<Rich(EoiSpan(len), <<"syntax error">>)>>)

\* .into_result() on the output r of the parser
into_result(tokens, len, r) ==
    IF r.ok THEN ParseOk(r.value)
    ELSE ParseErr(<<Rich(IF r.far <= Len(tokens) THEN tokens[r.far].span ELSE EoiSpan(len),
                         <<"syntax error">>)>>)

\* schema_parser().parse(tokens).into_result() on the tokens of a source of len bytes
parse(tokens, len) == into_result(tokens, len, schema_parser(tokens))

(***************************************************************************)
(* The grammar the parser implements, as a recognizer that follows every   *)
(* derivation: for each rule, the set of positions at which an instance of *)
(* the rule that starts at position i can end.                             *)
(***************************************************************************)
At(tokens, i, kind) == i <= Len(tokens) /\ tokens[i].kind = kind

AtAny(tokens, i, kinds) == i <= Len(tokens) /\ tokens[i].kind \in kinds

\* reference := "(" "ref" refop ident "." ident ")"
ReferenceEnds(tokens, i) ==
    IF /\ At(tokens, i, "LeftParen")
       /\ At(tokens, i + 1, "Ref")
       /\ AtAny(tokens, i + 2, {"RefOneToMany", "RefOneToOne", "RefManyToMany"})
       /\ At(tokens, i + 3, "Id")
       /\ At(tokens, i + 4, "Dot")
       /\ At(tokens, i + 5, "Id")
       /\ At(tokens, i + 6, "RightParen")
    THEN {i + 7} ELSE {}

\* column := ident ":" ident ("primary" | "unique")? reference?
ColumnEnds(tokens, i) ==
    IF At(tokens, i, "Id") /\ At(tokens, i + 1, "Colon") /\ At(tokens, i + 2, "Id")
    THEN LET attr == {i + 3} \cup
                     (IF AtAny(tokens, i + 3, {"Primary", "Unique"}) THEN {i + 4} ELSE {})
         IN attr \cup UNION {ReferenceEnds(tokens, j) : j \in attr}
    ELSE {}

\* column ("," column)*
RECURSIVE ColumnListEnds(_, _)
ColumnListEnds(tokens, i) ==
    LET first == ColumnEnds(tokens, i) IN
    first \cup UNION {ColumnListEnds(tokens, j + 1) : j \in {k \in first : At(tokens, k, "Comma")}}

\* ident ("," ident)* with at least n identifiers
RECURSIVE IdentListEnds(_, _, _)
IdentListEnds(tokens, i, n) ==
    IF ~At(tokens, i, "Id") THEN {}
    ELSE (IF n <= 1 THEN {i + 1} ELSE {}) \cup
         (IF At(tokens, i + 1, "Comma") THEN IdentListEnds(tokens, i + 2, n - 1) ELSE {})

\* index_item := "(" ident ("," ident)+ ")" | ident
IndexItemEnds(tokens, i) ==
    (IF At(tokens, i, "Id") THEN {i + 1} ELSE {}) \cup
    (IF At(tokens, i, "LeftParen")
     THEN {j + 1 : j \in {k \in IdentListEnds(tokens, i + 1, 2) : At(tokens, k, "RightParen")}}
     ELSE {})

RECURSIVE IndexListEnds(_, _)
IndexListEnds(tokens, i) ==
    LET first == IndexItemEnds(tokens, i) IN
    first \cup UNION {IndexListEnds(tokens, j + 1) : j \in {k \in first : At(tokens, k, "Comma")}}

\* indexes := "indexes" "{" index_item ("," index_item)* "}"
IndexSectionEnds(tokens, i) ==
    IF At(tokens, i, "Indexes") /\ At(tokens, i + 1, "LeftBrace")
    THEN {j + 1 : j \in {k \in IndexListEnds(tokens, i + 2) : At(tokens, k, "RightBrace")}}
    ELSE {}

\* table := "abstract"? "table" ident ("extends" ident)? "{" columns indexes? "}"
TableEnds(tokens, i) ==
    LET heads == {h \in {i} \cup (IF At(tokens, i, "Abstract") THEN {i + 1} ELSE {}) :
                     At(tokens, h, "Table") /\ At(tokens, h + 1, "Id")}
        names == {h + 2 : h \in heads} \cup
                 {h + 4 : h \in {k \in heads : At(tokens, k + 2, "Extends")
                                               /\ At(tokens, k + 3, "Id")}}
        opened == {e + 1 : e \in {k \in names : At(tokens, k, "LeftBrace")}}
        columns == UNION {ColumnListEnds(tokens, o) : o \in opened}
        bodies == columns \cup UNION {IndexSectionEnds(tokens, c) : c \in columns}
    IN {b + 1 : b \in {k \in bodies : At(tokens, k, "RightBrace")}}

\* the tokens from i on are zero or more tables and nothing else
RECURSIVE TablesUntilEnd(_, _)
TablesUntilEnd(tokens, i) ==
    i = Len(tokens) + 1 \/ \E j \in TableEnds(tokens, i) : TablesUntilEnd(tokens, j)

\* schema := table+
WellFormed(tokens) == \E j \in TableEnds(tokens, 1) : TablesUntilEnd(tokens, j)

(***************************************************************************)
(* The sources the front end is run on, each a sequence of pieces (words,  *)
(* symbols, blanks) spelled out into characters.  Three families:          *)
(*  - programs written out from a description: one or two tables with a    *)
(*    header of HeaderMenu (or a table extending an undeclared one),       *)
(*    columns of a menu and an indexes section of a menu, placed before    *)
(*    or behind the closing brace of the table;                            *)
(*  - two of these programs with one piece inserted, removed or replaced;  *)
(*  - every sequence of up to MaxPieces pieces.                            *)
(***************************************************************************)
MaxPieces == 3

\* the characters of the words of the sources; any other piece is one character
Spell(piece) ==
    CASE piece = "abstract" -> <<"a", "b", "s", "t", "r", "a", "c", "t">>
      [] piece = "table" -> <<"t", "a", "b", "l", "e">>
      [] piece = "extends" -> <<"e", "x", "t", "e", "n", "d", "s">>
      [] piece = "primary" -> <<"p", "r", "i", "m", "a", "r", "y">>
      [] piece = "unique" -> <<"u", "n", "i", "q", "u", "e">>
      [] piece = "ref" -> <<"r", "e", "f">>
      [] piece = "indexes" -> <<"i", "n", "d", "e", "x", "e", "s">>
      [] piece = "foo" -> <<"f", "o", "o">>
      [] piece = "bar" -> <<"b", "a", "r">>
      [] piece = "hey" -> <<"h", "e", "y">>
      [] piece = "id" -> <<"i", "d">>
      [] piece = "name" -> <<"n", "a", "m", "e">>
      [] piece = "time" -> <<"t", "i", "m", "e">>
      [] piece = "uuid" -> <<"u", "u", "i", "d">>
      [] piece = "string" -> <<"s", "t", "r", "i", "n", "g">>
      [] piece = "=>" -> <<"=", ">">>
      [] piece = "==" -> <<"=", "=">>
      [] piece = "<>" -> <<"<", ">">>
      [] OTHER -> <<piece>>

\* the characters of a sequence of pieces (halving keeps the nesting low)
RECURSIVE SpellAll(_)
SpellAll(pieces) ==
    IF pieces = <<>> THEN <<>>
    ELSE IF Len(pieces) = 1 THEN Spell(pieces[1])
    ELSE LET half == Len(pieces) \div 2 IN
         SpellAll(SubSeq(pieces, 1, half)) \o SpellAll(SubSeq(pieces, half + 1, Len(pieces)))

\* the pieces of the items of a list with sep between two of them
RECURSIVE SepBy(_, _)
SepBy(items, sep) ==
    IF items = <<>> THEN <<>>
    ELSE IF Len(items) = 1 THEN items[1]
    ELSE items[1] \o sep \o SepBy(Tail(items), sep)

\* the description of a program: the AST it is the text of, without spans
NoRef == [some |-> FALSE]
Ref(operator, table, column) ==
    [some |-> TRUE, operator |-> operator, table |-> table, column |-> column]

Col(id, typ, attribute, reference) ==
    [id |-> id, typ |-> typ, attribute |-> attribute, reference |-> reference]

Decl(h, columns, indexes) ==
    [id |-> h.id, is_abstract |-> h.is_abstract, extended_by |-> h.extended_by,
     columns |-> columns, indexes |-> indexes]

OperatorText(operator) ==
    CASE operator = "OneToMany" -> "=>" [] operator = "OneToOne" -> "==" [] OTHER -> "<>"

AttributeText(attribute) == IF attribute = "Primary" THEN "primary" ELSE "unique"

WriteReference(r) ==
    <<"(", "ref", " ", OperatorText(r.operator), " ", r.table, ".", r.column, ")">>

WriteColumn(c) ==
    <<c.id, ":", " ", c.typ>>
    \o (IF c.attribute # None THEN <<" ", AttributeText(c.attribute)>> ELSE <<>>)
    \o (IF c.reference.some THEN <<" ">> \o WriteReference(c.reference) ELSE <<>>)

WriteIndex(index) ==
    IF index.kind = "Single" THEN <<index.ids[1]>>
    ELSE <<"(">> \o SepBy([m \in 1..Len(index.ids) |-> <<index.ids[m]>>], <<",", " ">>) \o <<")">>

WriteIndexes(items) ==
    <<"indexes", " ", "{", " ">>
    \o SepBy([k \in 1..Len(items) |-> WriteIndex(items[k])], <<",", " ">>)
    \o <<" ", "}">>

\* place: the indexes section "inside" the braces of the table, behind the
\* last column, or "after" the closing brace
WriteTable(t, place) ==
    (IF t.is_abstract THEN <<"abstract", " ">> ELSE <<>>)
    \o <<"table", " ", t.id>>
    \o (IF t.extended_by # None THEN <<" ", "extends", " ", t.extended_by>> ELSE <<>>)
    \o <<" ", "{", "\n">>
    \o SepBy([ci \in 1..Len(t.columns) |-> WriteColumn(t.columns[ci])], <<",", "\n">>)
    \o (IF t.indexes.some /\ place = "inside" THEN <<"\n">> \o WriteIndexes(t.indexes.items)
        ELSE <<>>)
    \o <<"\n", "}">>
    \o (IF t.indexes.some /\ place = "after" THEN <<" ">> \o WriteIndexes(t.indexes.items)
        ELSE <<>>)

WriteProgram(tables, places) ==
    SepBy([ti \in 1..Len(tables) |-> WriteTable(tables[ti], places[ti])], <<"\n">>)

ProgramColumns ==
    {<<Col("id", "uuid", None, NoRef)>>,
     <<Col("id", "uuid", "Primary", NoRef),
       Col("name", "string", None, Ref("OneToMany", "bar", "id"))>>,
     <<Col("name", "string", "Unique", Ref("ManyToMany", "foo", "name")),
       Col("id", "uuid", None, Ref("OneToOne", "bar", "name"))>>}

ProgramIndexes ==
    {[indexes |-> NoIndexes, place |-> "inside"],
     [indexes |-> SomeIndexes(<<Single("id")>>), place |-> "inside"],
     [indexes |-> SomeIndexes(<<Composite(<<"id", "name">>), Single("time")>>),
      place |-> "inside"],
     [indexes |-> SomeIndexes(<<Single("id")>>), place |-> "after"]}

ProgramHeaders == HeaderMenu \cup {<<Header("foo", FALSE, "bar")>>}

\* where a source comes from: the program it is the text of (<<>> when it
\* is the text of none), the place of each indexes section, whether a piece
\* was edited, and its pieces
Origin(tables, places, edited, pieces) ==
    [tables |-> tables, places |-> places, edited |-> edited, pieces |-> pieces]

Written(tables, places) == Origin(tables, places, FALSE, WriteProgram(tables, places))

EditBase ==
    {Written(<<Decl(Header("foo", FALSE, None), <<Col("id", "uuid", None, NoRef)>>,
                    NoIndexes)>>, <<"inside">>),
     Written(<<Decl(Header("bar", TRUE, None),
                    <<Col("id", "uuid", "Primary", NoRef),
                      Col("name", "string", None, Ref("OneToMany", "bar", "id"))>>,
                    SomeIndexes(<<Composite(<<"id", "name">>), Single("name")>>)),
               Decl(Header("foo", FALSE, "bar"), <<Col("time", "string", "Unique", NoRef)>>,
                    NoIndexes)>>, <<"inside", "inside">>)}

EditPieces ==
    {"table", "abstract", "extends", "indexes", "primary", "ref", "foo", "{", "}", "(", ")",
     ",", ":", ".", "=>", " ", "#", "=", "_", "1"}

RawPieces == {"table", "indexes", "foo", "{", "}", "(", ",", ":", " ", "\n", "#", "="}

InsertAt(pieces, k, piece) == SubSeq(pieces, 1, k) \o <<piece>> \o SubSeq(pieces, k + 1, Len(pieces))

RemoveAt(pieces, k) == SubSeq(pieces, 1, k - 1) \o SubSeq(pieces, k + 1, Len(pieces))

ReplaceAt(pieces, k, piece) == [pieces EXCEPT ![k] = piece]

\* o is one of the sources of the three families
IsOrigin(o) ==
    \/ \E hs \in ProgramHeaders :
          \E cs \in [1..Len(hs) -> ProgramColumns] : \E ixs \in [1..Len(hs) -> ProgramIndexes] :
             o = Written([ti \in 1..Len(hs) |-> Decl(hs[ti], cs[ti], ixs[ti].indexes)],
                         [ti \in 1..Len(hs) |-> ixs[ti].place])
    \/ \E base \in EditBase : \E piece \in EditPieces :
          \/ \E k \in 0..Len(base.pieces) :
                o = Origin(base.tables, base.places, TRUE, InsertAt(base.pieces, k, piece))
          \/ \E k \in 1..Len(base.pieces) :
                \/ o = Origin(base.tables, base.places, TRUE, ReplaceAt(base.pieces, k, piece))
                \/ o = Origin(base.tables, base.places, TRUE, RemoveAt(base.pieces, k))
    \/ \E n \in 0..MaxPieces : \E pieces \in [1..n -> RawPieces] :
          o = Origin(<<>>, <<>>, TRUE, pieces)

\* the Schema check is called on: the output of parse, its nodes identified by
\* their position in the tree.  No table has an indexes section: table_parser
\* does not store the one it parsed.
Lower(sch) ==
    [ti \in 1..Len(sch.tables) |->
        LET t == sch.tables[ti] IN
        TableDef(t.id.name, t.is_abstract,
                 IF t.extended_by.some THEN t.extended_by.value.name ELSE None,
                 [ci \in 1..Len(t.columns) |->
                     LET c == t.columns[ci] IN
                     Typed(ColumnDef(c.id.name,
                                     IF c.reference.some
                                     THEN ReferenceDef(c.reference.value.table.name,
                                                       c.reference.value.column.name)
                                     ELSE NoReference,
                                     ti, ci),
                           c.typ.name,
                           IF c.attribute.some THEN c.attribute.value ELSE None,
                           IF c.reference.some THEN c.reference.value.operator ELSE None)],
                 NoIndexes)]

\* the description of a parsed Schema: its tables without the spans
Shape(sch) ==
    [ti \in 1..Len(sch.tables) |->
        LET t == sch.tables[ti] IN
        [id |-> t.id.name, is_abstract |-> t.is_abstract,
         extended_by |-> IF t.extended_by.some THEN t.extended_by.value.name ELSE None,
         columns |-> [ci \in 1..Len(t.columns) |->
                         LET c == t.columns[ci] IN
                         Col(c.id.name, c.typ.name,
                             IF c.attribute.some THEN c.attribute.value ELSE None,
                             IF c.reference.some
                             THEN Ref(c.reference.value.operator, c.reference.value.table.name,
                                      c.reference.value.column.name)
                             ELSE NoRef)],
         indexes |-> NoIndexes]]

(***************************************************************************)
(* The state machine of one call of check.                                 *)
(***************************************************************************)
Init ==
    /\ IsInput(schema)
    /\ pc = "collect"
    /\ table_map = EmptyMap
    /\ pending = {}
    /\ sorted_at = 1
    /\ walking = FALSE
    /\ checked = {}
    /\ visited = {}
    /\ stack = <<>>
    /\ popped = <<>>
    /\ context = EmptyMap
    /\ result = NoResult
    /\ previous = NoResult
    /\ entry = "check"
    /\ origin = Origin(<<>>, <<>>, FALSE, <<>>)
    /\ source = <<>>
    /\ lexed = <<>>
    /\ parsed = NotParsed
    /\ reported = NotReported
    /\ written = FALSE
    /\ active = 1
    /\ other = NoCall
    /\ document_map = EmptyMap
    /\ received = <<>>
    /\ handling = None
    /\ published = <<>>

Return(r) ==
    /\ result' = r
    /\ pc' = "done"

\* let table_map = self.collect_tables()?;
Collect ==
    /\ pc = "collect"
    /\ LET r == collect_tables(schema) IN
       IF r.ok
       THEN /\ table_map' = r.map
            /\ pending' = DOMAIN r.map
            /\ pc' = "extension"
            /\ UNCHANGED result
       ELSE /\ Return(Err(r.errs))
            /\ UNCHANGED <<table_map, pending>>
    /\ UNCHANGED <<schema, sorted_at, walking, checked, visited, stack, popped, context, previous>>
    /\ UNCHANGED <<front, calls, editor>>

\* self.check_extension(&table_map)?;  one iteration of for (_, table) in table_map
CheckExtension ==
    /\ pc = "extension"
    /\ \E name \in pending :
          LET errs == check_extension(schema, table_map, table_map[name]) IN
          IF errs # <<>>
          THEN /\ Return(Err(errs))
               /\ UNCHANGED pending
          ELSE /\ pending' = pending \ {name}
               /\ pc' = IF pending' = {} THEN "cyclic" ELSE "extension"
               /\ UNCHANGED result
    /\ UNCHANGED <<schema, table_map, sorted_at, walking, checked, visited, stack, popped,
                   context, previous>>
    /\ UNCHANGED <<front, calls, editor>>

\* CheckCyclicFor starting a walk from a table that is in checked
CheckCyclicFor_rewalking ==
    /\ pc = "cyclic"
    /\ ~walking
    /\ LET sorted == sorted_tables(schema, table_map) IN
       IF sorted_at > Len(sorted)
       THEN /\ pc' = "flatten"
            /\ pending' = DOMAIN table_map
            /\ UNCHANGED <<sorted_at, walking, visited, stack>>
       ELSE LET table == sorted[sorted_at]
                start_name == schema[table].id
            IN IF FALSE
               THEN /\ sorted_at' = sorted_at + 1
                    /\ UNCHANGED <<pc, pending, walking, visited, stack>>
               ELSE /\ visited' = {}
                    /\ stack' = <<table>>
                    /\ walking' = TRUE
                    /\ UNCHANGED <<pc, pending, sorted_at>>
    /\ UNCHANGED <<schema, table_map, checked, popped, context, result, previous>>
    /\ UNCHANGED <<front, calls, editor>>

\* self.check_cyclic_extension(&table_map)?;  the head of for table in sorted_tables
CheckCyclicFor ==
    /\ pc = "cyclic"
    /\ ~walking
    /\ LET sorted == sorted_tables(schema, table_map) IN
       IF sorted_at > Len(sorted)
       THEN /\ pc' = "flatten"
            /\ pending' = DOMAIN table_map
            /\ UNCHANGED <<sorted_at, walking, visited, stack>>
       ELSE LET table == sorted[sorted_at]
                start_name == schema[table].id
            IN IF start_name \in checked
               THEN /\ sorted_at' = sorted_at + 1
                    /\ UNCHANGED <<pc, pending, walking, visited, stack>>
               ELSE /\ visited' = {}
                    /\ stack' = <<table>>
                    /\ walking' = TRUE
                    /\ UNCHANGED <<pc, pending, sorted_at>>
    /\ UNCHANGED <<schema, table_map, checked, popped, context, result, previous>>
    /\ UNCHANGED <<front, calls, editor>>

\* one iteration of while !stack.is_empty(), or the end of the walk
CheckCyclicWhile ==
    /\ pc = "cyclic"
    /\ walking
    /\ IF stack = <<>>
       THEN /\ checked' = checked \cup visited
            /\ visited' = {}
            /\ walking' = FALSE
            /\ sorted_at' = sorted_at + 1
            /\ UNCHANGED <<pc, stack, popped, result>>
       ELSE LET cur_table == stack[Len(stack)]
                rest == SubSeq(stack, 1, Len(stack) - 1)
                vis == visited \cup {schema[cur_table].id}
                step == walk_step(schema, table_map, checked, vis, cur_table)
            IN /\ visited' = vis
               /\ popped' = Append(popped, schema[cur_table].id)
               /\ UNCHANGED <<checked, walking, sorted_at>>
               /\ CASE step.kind = "continue" -> stack' = rest /\ UNCHANGED <<pc, result>>
                    [] step.kind = "push" ->
                          stack' = Append(rest, step.table) /\ UNCHANGED <<pc, result>>
                    [] step.kind = "err" -> stack' = rest /\ Return(Err(step.errs))
                    [] OTHER -> stack' = rest /\ Return(Panic)
    /\ UNCHANGED <<schema, table_map, pending, context, previous>>
    /\ UNCHANGED <<front, calls, editor>>

\* Flatten storing the flattened columns of a table in the table itself
Flatten_in_place ==
    /\ pc = "flatten"
    /\ \E name \in pending :
          \E r \in flatten_table(schema, table_map, context, table_map[name]) :
             CASE r.kind = "ok" ->
                     /\ context' = insert(context, name, Range(r.columns))
                     /\ \E columns \in AllOrders(Range(r.columns)) :
                           schema' = [schema EXCEPT ![table_map[name]].columns = columns]
                     /\ pending' = pending \ {name}
                     /\ pc' = IF pending' = {} THEN "indexes" ELSE "flatten"
                     /\ UNCHANGED result
               [] r.kind = "err" ->
                     /\ Return(Err(r.errs))
                     /\ UNCHANGED <<schema, context, pending>>
               [] OTHER ->
                     /\ Return(Panic)
                     /\ UNCHANGED <<schema, context, pending>>
    /\ UNCHANGED <<table_map, sorted_at, walking, checked, visited, stack, popped, previous>>
    /\ UNCHANGED <<front, calls, editor>>

\* one iteration of for (name, &table) in &table_map of build_extension_context
Flatten ==
    /\ pc = "flatten"
    /\ \E name \in pending :
          \E r \in flatten_table(schema, table_map, context, table_map[name]) :
             CASE r.kind = "ok" ->
                     /\ context' = insert(context, name, Range(r.columns))
                     /\ pending' = pending \ {name}
                     /\ pc' = IF pending' = {} THEN "indexes" ELSE "flatten"
                     /\ UNCHANGED result
               [] r.kind = "err" ->
                     /\ Return(Err(r.errs))
                     /\ UNCHANGED <<context, pending>>
               [] OTHER ->
                     /\ Return(Panic)
                     /\ UNCHANGED <<context, pending>>
    /\ UNCHANGED <<schema, table_map, sorted_at, walking, checked, visited, stack, popped,
                   previous>>
    /\ UNCHANGED <<front, calls, editor>>

\* the first loop of check
ValidateIndexes ==
    /\ pc = "indexes"
    /\ LET r == validate_indexes(schema, context, 1) IN
       CASE r.kind = "ok" -> pc' = "references" /\ UNCHANGED result
         [] r.kind = "err" -> Return(Err(r.errs))
         [] OTHER -> Return(Panic)
    /\ UNCHANGED <<schema, table_map, pending, sorted_at, walking, checked, visited, stack,
                   popped, context, previous>>
    /\ UNCHANGED <<front, calls, editor>>

\* the second loop of check, and Ok(())
ValidateReferences ==
    /\ pc = "references"
    /\ LET errs == validate_references(schema, context, 1, 1) IN
       IF errs # <<>> THEN Return(Err(errs)) ELSE Return(Ok)
    /\ UNCHANGED <<schema, table_map, pending, sorted_at, walking, checked, visited, stack,
                   popped, context, previous>>
    /\ UNCHANGED <<front, calls, editor>>

\* the caller parses the same source again and calls check on the new Schema
CheckAgain ==
    /\ pc = "done"
    /\ previous = NoResult
    /\ previous' = result
    /\ pc' = "collect"
    /\ table_map' = EmptyMap
    /\ pending' = {}
    /\ sorted_at' = 1
    /\ walking' = FALSE
    /\ checked' = {}
    /\ visited' = {}
    /\ stack' = <<>>
    /\ popped' = <<>>
    /\ context' = EmptyMap
    /\ result' = NoResult
    /\ UNCHANGED schema
    /\ UNCHANGED <<front, calls, editor>>

Next ==
    \/ Collect
    \/ CheckExtension
    \/ CheckCyclicFor
    \/ CheckCyclicWhile
    \/ Flatten
    \/ ValidateIndexes
    \/ ValidateReferences

Spec == Init /\ [][Next]_vars

NextTwice == Next \/ CheckAgain

SpecTwice == Init /\ [][NextTwice]_vars

\* the schema with the columns of table ti (of every table when ti = 0)
\* given another type, attribute and reference operator
Retyped(tables, ti, typ, attribute, operator) ==
    [i \in 1..Len(tables) |->
        IF ti \in {0, i}
        THEN [tables[i] EXCEPT !.columns =
                 [ci \in 1..Len(tables[i].columns) |->
                     Typed(tables[i].columns[ci], typ, attribute, operator)]]
        ELSE tables[i]]

\* the types, attributes and operators given to the columns of a schema
Retypings ==
    {[typ |-> "uuid", attribute |-> "Primary", operator |-> "OneToOne"],
     [typ |-> "uuid", attribute |-> "Unique", operator |-> "ManyToMany"],
     [typ |-> "string", attribute |-> None, operator |-> "ManyToMany"]}

\* the schemas check is run on before and after their columns are retyped
InitRetyped ==
    /\ \/ \E hs \in HeaderMenu : \E bs \in [1..Len(hs) -> Bodies] : schema = MkSchema(hs, bs)
       \/ \E p \in Permutations3 : \E cs \in [1..3 -> ColNames] :
             \E ix \in ChainLeafIndexes : \E ref \in ChainLeafRefs :
                schema = ChainSchema(p, cs, ix, ref)
    /\ pc = "collect"
    /\ table_map = EmptyMap
    /\ pending = {}
    /\ sorted_at = 1
    /\ walking = FALSE
    /\ checked = {}
    /\ visited = {}
    /\ stack = <<>>
    /\ popped = <<>>
    /\ context = EmptyMap
    /\ result = NoResult
    /\ previous = NoResult
    /\ entry = "check"
    /\ origin = Origin(<<>>, <<>>, FALSE, <<>>)
    /\ source = <<>>
    /\ lexed = <<>>
    /\ parsed = NotParsed
    /\ reported = NotReported
    /\ written = FALSE
    /\ active = 1
    /\ other = NoCall
    /\ document_map = EmptyMap
    /\ received = <<>>
    /\ handling = None
    /\ published = <<>>

\* check called on the schema that differs from the one checked before in
\* the types, attributes and reference operators of columns only
CheckRetyped ==
    /\ pc = "done"
    /\ previous = NoResult
    /\ previous' = result
    /\ \E ti \in 0..1 : \E retyped \in Retypings :
          schema' = Retyped(schema, ti, retyped.typ, retyped.attribute, retyped.operator)
    /\ pc' = "collect"
    /\ table_map' = EmptyMap
    /\ pending' = {}
    /\ sorted_at' = 1
    /\ walking' = FALSE
    /\ checked' = {}
    /\ visited' = {}
    /\ stack' = <<>>
    /\ popped' = <<>>
    /\ context' = EmptyMap
    /\ result' = NoResult
    /\ UNCHANGED <<front, calls, editor>>

NextRetyped == Next \/ CheckRetyped

SpecRetyped == InitRetyped /\ [][NextRetyped]_vars

\* check is a sequential function: it goes on as long as it has a step to take
SpecLive == Init /\ [][Next]_vars /\ WF_vars(Next)

(***************************************************************************)
(* Two calls of check on two schemas, on two threads.  Each call has its   *)
(* frame: check takes &mut self, and every map and set it writes is a      *)
(* local of check or of the function that builds it.  The variables of the *)
(* state machine above are the frame of the call that runs; a switch of    *)
(* the scheduler parks it and resumes the other call.                      *)
(***************************************************************************)
\* the schemas the two calls are drawn from
PairInputs ==
    {TopologySchema(hs) : hs \in HeaderMenu}
    \cup {ChainSchema(p, ColSeq, SomeIndexes(<<Single("time")>>), ReferenceDef("bar", "id")) :
             p \in {<<1, 2, 3>>, <<3, 1, 2>>}}
    \cup {MkSchema(<<Header("foo", FALSE, None)>>,
                   <<Body(<<"id", "id">>, SomeIndexes(<<Single("name")>>), NoReference)>>)}

Running ==
    Frame(schema, pc, table_map, pending, sorted_at, walking, checked, visited, stack,
          popped, context, result)

InitPair ==
    /\ schema \in PairInputs
    /\ pc = "collect"
    /\ table_map = EmptyMap
    /\ pending = {}
    /\ sorted_at = 1
    /\ walking = FALSE
    /\ checked = {}
    /\ visited = {}
    /\ stack = <<>>
    /\ popped = <<>>
    /\ context = EmptyMap
    /\ result = NoResult
    /\ previous = NoResult
    /\ entry = "check"
    /\ origin = Origin(<<>>, <<>>, FALSE, <<>>)
    /\ source = <<>>
    /\ lexed = <<>>
    /\ parsed = NotParsed
    /\ reported = NotReported
    /\ written = FALSE
    /\ active = 1
    /\ \E sch \in PairInputs \ {schema} :
          other = Frame(sch, "collect", EmptyMap, {}, 1, FALSE, {}, {}, <<>>, <<>>, EmptyMap,
                        NoResult)
    /\ document_map = EmptyMap
    /\ received = <<>>
    /\ handling = None
    /\ published = <<>>

\* Switch with one checked set for the two calls
Switch_shared_checked ==
    /\ other # NoCall
    /\ active' = 3 - active
    /\ other' = Running
    /\ schema' = other.schema
    /\ pc' = other.pc
    /\ table_map' = other.table_map
    /\ pending' = other.pending
    /\ sorted_at' = other.sorted_at
    /\ walking' = other.walking
    /\ visited' = other.visited
    /\ stack' = other.stack
    /\ popped' = other.popped
    /\ context' = other.context
    /\ result' = other.result
    /\ UNCHANGED <<checked, previous, front, editor>>

\* the scheduler takes the thread of the running call off and puts the
\* thread of the other call on
Switch ==
    /\ other # NoCall
    /\ active' = 3 - active
    /\ other' = Running
    /\ schema' = other.schema
    /\ pc' = other.pc
    /\ table_map' = other.table_map
    /\ pending' = other.pending
    /\ sorted_at' = other.sorted_at
    /\ walking' = other.walking
    /\ checked' = other.checked
    /\ visited' = other.visited
    /\ stack' = other.stack
    /\ popped' = other.popped
    /\ context' = other.context
    /\ result' = other.result
    /\ UNCHANGED <<previous, front, editor>>

NextPair == Next \/ Switch

SpecPair == InitPair /\ [][NextPair]_vars

(***************************************************************************)
(* The pipelines that run the front end on a source: compile (codegen.rs), *)
(* the editor's on_change (mecha-lsp) and flush (mcc/src/emitter.rs).      *)
(***************************************************************************)
\* every program goes through each of the three functions, the edited
\* sources and the sequences of pieces through compile
InitFront ==
    /\ entry \in {"compile", "on_change", "flush"}
    /\ IsOrigin(origin)
    /\ origin.edited => entry = "compile"
    /\ source = SpellAll(origin.pieces)
    /\ lexed = <<>>
    /\ parsed = NotParsed
    /\ reported = NotReported
    /\ written = FALSE
    /\ schema = <<>>
    /\ pc = "tokenize"
    /\ table_map = EmptyMap
    /\ pending = {}
    /\ sorted_at = 1
    /\ walking = FALSE
    /\ checked = {}
    /\ visited = {}
    /\ stack = <<>>
    /\ popped = <<>>
    /\ context = EmptyMap
    /\ result = NoResult
    /\ previous = NoResult
    /\ active = 1
    /\ other = NoCall
    /\ document_map = EmptyMap
    /\ received = <<>>
    /\ handling = None
    /\ published = <<>>

\* the byte offset the lexer is at: the end of the last token it yielded
lexer_at(toks) == IF toks = <<>> THEN 0 ELSE toks[Len(toks)].span[2]

\* let tokens = lexer::lex(src);  the stream pulls one token, or finds the end
Tokenize ==
    /\ pc = "tokenize"
    /\ LET yielded == next_token(source, lexer_at(lexed)) IN
       IF yielded = {}
       THEN pc' = "parse" /\ UNCHANGED lexed
       ELSE (\E token \in yielded : lexed' = Append(lexed, token)) /\ UNCHANGED pc
    /\ UNCHANGED <<entry, origin, source, parsed, reported, written>>
    /\ UNCHANGED <<check_vars, calls, editor>>

\* Parse going on to check whatever the parser returned
Parse_unconditional ==
    /\ pc = "parse"
    /\ parsed' = parse(lexed, Len(source))
    /\ schema' = IF parsed'.tag = "Ok" THEN Lower(parsed'.schema) ELSE <<>>
    /\ pc' = IF entry = "flush" THEN "emit" ELSE "collect"
    /\ UNCHANGED <<entry, origin, source, lexed, reported, written>>
    /\ UNCHANGED <<table_map, pending, sorted_at, walking, checked, visited, stack, popped,
                   context, result, previous, calls, editor>>

\* schema_parser().parse(tokens).into_result(), and the match on it of the
\* caller: on Ok compile and on_change go on to check, flush to the output
Parse ==
    /\ pc = "parse"
    /\ parsed' = parse(lexed, Len(source))
    /\ IF parsed'.tag = "Ok"
       THEN /\ schema' = Lower(parsed'.schema)
            /\ pc' = IF entry = "flush" THEN "emit" ELSE "collect"
       ELSE /\ pc' = "report"
            /\ UNCHANGED schema
    /\ UNCHANGED <<entry, origin, source, lexed, reported, written>>
    /\ UNCHANGED <<table_map, pending, sorted_at, walking, checked, visited, stack, popped,
                   context, result, previous, calls, editor>>

\* Err(errs) of parse: diagnose(src, input_filename, errs), or the
\* diagnostics on_change publishes
ReportSyntax ==
    /\ pc = "report"
    /\ reported' = Reported(parsed.errs)
    /\ pc' = "end"
    /\ UNCHANGED <<entry, origin, source, lexed, parsed, written>>
    /\ UNCHANGED <<check_vars, calls, editor>>

\* the rest of compile and of on_change once check returned
ReportCheck ==
    /\ pc = "done"
    /\ entry # "check"
    /\ IF result.tag = "Err" THEN reported' = Reported(result.errs) /\ pc' = "end"
       ELSE IF entry = "on_change" THEN reported' = Reported(<<>>) /\ pc' = "end"
       ELSE pc' = "emit" /\ UNCHANGED reported
    /\ UNCHANGED <<entry, origin, source, lexed, parsed, written>>
    /\ UNCHANGED <<check_vars, calls, editor>>

\* serde_json::to_string and fs::write, which succeeds or fails
Emit ==
    /\ pc = "emit"
    /\ \E ok \in BOOLEAN : written' = ok
    /\ pc' = "end"
    /\ UNCHANGED <<entry, origin, source, lexed, parsed, reported>>
    /\ UNCHANGED <<check_vars, calls, editor>>

NextFront ==
    \/ Tokenize
    \/ Parse
    \/ Next
    \/ ReportSyntax
    \/ ReportCheck
    \/ Emit

SpecFront == InitFront /\ [][NextFront]_vars

(***************************************************************************)
(* The editor service (crates/mecha-lsp/src/lib.rs).  The client sends     *)
(* did_open and did_change notifications; the handler of one stores the    *)
(* text, parses and checks it and publishes the diagnostics before the     *)
(* next notification is handled.                                           *)
(***************************************************************************)
MaxChanges == 3

Uris == {"a.mecha", "b.mecha"}

\* a schema that passes check, a text that does not parse, and a schema
\* check rejects
EditorTexts ==
    {SpellAll(<<"abstract", " ", "table", " ", "bar", "{", "id", ":", "uuid", "}", "\n",
               "table", " ", "foo", " ", "extends", " ", "bar", "{", "name", ":", "string",
               "}">>),
     SpellAll(<<"table", " ", "foo", "{">>),
     SpellAll(<<"table", " ", "foo", " ", "extends", " ", "bar", "{", "id", ":", "uuid",
               "}">>)}

\* params.content_changes: none, one or two changes, each the full text
ContentChanges == {<<>>} \cup SeqsUpTo(EditorTexts, 2)

DidOpenTextDocumentParams(uri, text) == [method |-> "did_open", uri |-> uri, text |-> text]

DidChangeTextDocumentParams(uri, content_changes) ==
    [method |-> "did_change", uri |-> uri, content_changes |-> content_changes]

InitEditor ==
    /\ entry = "on_change"
    /\ pc = "idle"
    /\ origin = Origin(<<>>, <<>>, FALSE, <<>>)
    /\ source = <<>>
    /\ lexed = <<>>
    /\ parsed = NotParsed
    /\ reported = NotReported
    /\ written = FALSE
    /\ schema = <<>>
    /\ table_map = EmptyMap
    /\ pending = {}
    /\ sorted_at = 1
    /\ walking = FALSE
    /\ checked = {}
    /\ visited = {}
    /\ stack = <<>>
    /\ popped = <<>>
    /\ context = EmptyMap
    /\ result = NoResult
    /\ previous = NoResult
    /\ active = 1
    /\ other = NoCall
    /\ document_map = EmptyMap
    /\ received = <<>>
    /\ handling = None
    /\ published = <<>>

\* self.document_map.insert(uri.to_string(), text.clone()), and the start of
\* parse("", &text)
on_change(uri, text) ==
    /\ document_map' = insert(document_map, uri, text)
    /\ handling' = uri
    /\ source' = text
    /\ lexed' = <<>>
    /\ parsed' = NotParsed
    /\ reported' = NotReported
    /\ pc' = "tokenize"
    /\ schema' = <<>>
    /\ table_map' = EmptyMap
    /\ pending' = {}
    /\ sorted_at' = 1
    /\ walking' = FALSE
    /\ checked' = {}
    /\ visited' = {}
    /\ stack' = <<>>
    /\ popped' = <<>>
    /\ context' = EmptyMap
    /\ result' = NoResult
    /\ UNCHANGED <<previous, entry, origin, written, calls, published>>

\* self.on_change(params.text_document.uri, params.text_document.text)
did_open ==
    /\ pc = "idle"
    /\ Len(received) < MaxChanges
    /\ \E uri \in Uris : \E text \in EditorTexts :
          /\ received' = Append(received, DidOpenTextDocumentParams(uri, text))
          /\ on_change(uri, text)

\* if let Some(change) = params.content_changes.into_iter().next()
\*     { self.on_change(params.text_document.uri, change.text) }
did_change ==
    /\ pc = "idle"
    /\ Len(received) < MaxChanges
    /\ \E uri \in Uris : \E content_changes \in ContentChanges :
          /\ received' = Append(received, DidChangeTextDocumentParams(uri, content_changes))
          /\ IF content_changes # <<>>
             THEN on_change(uri, content_changes[1])
             ELSE UNCHANGED <<check_vars, pc, front, calls, document_map, handling, published>>

\* self.client.publish_diagnostics(uri, diagnostics, None).await
publish_diagnostics ==
    /\ pc = "end"
    /\ handling # None
    /\ published' = Append(published, [uri |-> handling, diagnostics |-> reported.errs])
    /\ handling' = None
    /\ pc' = "idle"
    /\ UNCHANGED <<check_vars, front, calls, document_map, received>>

NextEditor ==
    \/ did_open
    \/ did_change
    \/ Tokenize
    \/ Parse
    \/ Next
    \/ ReportSyntax
    \/ ReportCheck
    \/ publish_diagnostics

SpecEditor == InitEditor /\ [][NextEditor]_vars

(***************************************************************************)
(* The rules of the language, stated on the schema alone (section 3 of the *)
(* specification), against which the result of check is compared.          *)
(***************************************************************************)
Tables == 1..Len(schema)

Done == pc = "done"

\* table j is the table that the extends clause of table i names
Extends(i, j) == schema[i].extended_by # None /\ schema[j].id = schema[i].extended_by

\* j is reached from i by following extended_by between 1 and k times
RECURSIVE ReachedIn(_, _, _)
ReachedIn(i, j, k) ==
    /\ k > 0
    /\ \E m \in Tables : Extends(i, m) /\ (m = j \/ ReachedIn(m, j, k - 1))

\* following extended_by from i ends at a table with no parent within k steps
RECURSIVE EndsIn(_, _)
EndsIn(i, k) ==
    \/ schema[i].extended_by = None
    \/ k > 0 /\ \E m \in Tables : Extends(i, m) /\ EndsIn(m, k - 1)

UniqueTableNames == \A i, j \in Tables : i # j => schema[i].id # schema[j].id

ExtendsUndeclared(i) ==
    schema[i].extended_by # None /\ \A j \in Tables : ~Extends(i, j)

ExtendsNonAbstract(i) == \E j \in Tables : Extends(i, j) /\ ~schema[j].is_abstract

ExtensionWellFormed == \A i \in Tables : ~ExtendsUndeclared(i) /\ ~ExtendsNonAbstract(i)

HasCycle == \E i \in Tables : ReachedIn(i, i, Len(schema))

Acyclic == \A i \in Tables : EndsIn(i, Len(schema))

\* i and the tables reached from i by following extended_by transitively
Lineage(i) == {i} \cup {j \in Tables : ReachedIn(i, j, Len(schema))}

\* the column declarations <<table, position>> of the lineage of i
Declarations(i) == UNION {{<<j, c>> : c \in DOMAIN schema[j].columns} : j \in Lineage(i)}

DeclaredName(d) == schema[d[1]].columns[d[2]].id

EffectiveNames(i) == {DeclaredName(d) : d \in Declarations(i)}

NoColumnRepeats ==
    \A i \in Tables : \A d, e \in Declarations(i) : d # e => DeclaredName(d) # DeclaredName(e)

\* the identifiers of the indexes section of table i
IndexedNames(i) ==
    UNION {Range(schema[i].indexes.items[k].ids) : k \in DOMAIN schema[i].indexes.items}

IndexesResolve == \A i \in Tables : IndexedNames(i) \subseteq EffectiveNames(i)

ReferenceResolves(i, c) ==
    LET reference == schema[i].columns[c].reference IN
    reference.some =>
        \E j \in Tables : schema[j].id = reference.table /\ reference.column \in EffectiveNames(j)

ReferencesResolve == \A i \in Tables : \A c \in DOMAIN schema[i].columns : ReferenceResolves(i, c)

\* the pass a diagnostic comes from, by its message
PassOf(e) ==
    CASE e.msg[1] \in {"table is declared here", "but redeclared here"} -> 1
      [] e.msg[1] \in {"table is not existed", "table is referenced here", "but it's not abstract"} -> 2
      [] e.msg[1] = "cyclic reference happens at" -> 3
      [] e.msg[1] = "column is redeclared" -> 4
      [] e.msg[1] = "indexed column does not exist in table" -> 5
      [] OTHER -> 6

\* the earliest pass whose rule the schema violates (0: none)
EarliestViolatedPass ==
    CASE ~UniqueTableNames -> 1
      [] ~ExtensionWellFormed -> 2
      [] HasCycle -> 3
      [] ~NoColumnRepeats -> 4
      [] ~IndexesResolve -> 5
      [] ~ReferencesResolve -> 6
      [] OTHER -> 0

(***************************************************************************)
(* Claims.                                                                 *)
(***************************************************************************)

\* C1: two runs of check on independently parsed copies of the same source
\* both return Ok or both return Err, whatever order the name->table map is
\* iterated in.
C1_SameOutcome == (Done /\ previous # NoResult) => result.tag = previous.tag

\* C2: when check fails, the diagnostic list (messages and spans, in order)
\* is the same on every run over the same source.
C2_SameDiagnostics ==
    (Done /\ previous.tag = "Err" /\ result.tag = "Err") => result.errs = previous.errs

\* C3: whenever check returns Ok, for every table no column name is declared
\* more than once among its own columns and those of the tables it reaches
\* through extended_by (two columns of one name in one table included).
C3_NoColumnRepeats == (Done /\ result = Ok) => NoColumnRepeats

\* C4: whenever check returns Ok no two tables have the same name, and if
\* two tables share a name check returns Err.
C4_UniqueTableNames ==
    Done => /\ result = Ok => UniqueTableNames
            /\ ~UniqueTableNames => result.tag = "Err"

C4_Witness ==
    /\ Done /\ ~UniqueTableNames
    /\ result.tag = "Err" /\ result.errs[1].msg[1] = "table is declared here"

\* C5: whenever check returns Ok every extended_by names a table that exists
\* and is abstract, and if some table extends an undeclared or a
\* non-abstract table check returns Err.
C5_ExtensionWellFormed ==
    Done => /\ result = Ok =>
                 \A i \in Tables : schema[i].extended_by # None =>
                     \E j \in Tables : Extends(i, j) /\ schema[j].is_abstract
            /\ (\E i \in Tables : ExtendsUndeclared(i) \/ ExtendsNonAbstract(i)) =>
                 result.tag = "Err"

C5_Witness ==
    /\ Done /\ UniqueTableNames
    /\ \E i \in Tables : ExtendsNonAbstract(i)
    /\ result.tag = "Err" /\ result.errs[1].msg[1] = "table is referenced here"

\* C6: whenever check returns Ok the extended_by graph is acyclic (from every
\* table, following extended_by ends at a table with no parent within the
\* number of tables), and every schema with a cycle, a table extending itself
\* included, makes check return Err.  The cycle pass is what decides it: no
\* later pass of check is entered on a schema with a cycle.
C6_Acyclic ==
    /\ Done => /\ result = Ok => Acyclic
               /\ HasCycle => result.tag = "Err"
    /\ pc \in {"flatten", "indexes", "references"} => ~HasCycle

C6_Witness ==
    /\ Done /\ UniqueTableNames /\ ExtensionWellFormed
    /\ \E i \in Tables : Extends(i, i)
    /\ result.tag = "Err" /\ result.errs[1].msg[1] = "cyclic reference happens at"

\* C7: whenever check returns Ok every identifier of every indexes section
\* names a column of the owning table's effective column set, inherited
\* columns included; an index naming a column of neither the table nor its
\* ancestors makes check return Err.
C7_IndexesResolve ==
    Done => /\ result = Ok => IndexesResolve
            /\ ~IndexesResolve => result.tag = "Err"

\* check returned Ok on a table whose index names a column it only inherits
C7_Witness ==
    /\ Done /\ result = Ok
    /\ \E i \in Tables :
          IndexedNames(i) \ {schema[i].columns[c].id : c \in DOMAIN schema[i].columns} # {}

\* C8: whenever check returns Ok, every reference names a table of the schema
\* and a column of that table's effective column set (own and inherited),
\* whatever the table of the referencing column is.
C8_ReferencesResolve == (Done /\ result = Ok) => ReferencesResolve

\* check returned Ok on a reference made from an abstract table to a column
\* that the referenced table only inherits
C8_Witness ==
    /\ Done /\ result = Ok
    /\ \E i, j \in Tables : \E c \in DOMAIN schema[i].columns :
          LET reference == schema[i].columns[c].reference IN
          /\ reference.some /\ schema[i].is_abstract
          /\ schema[j].id = reference.table
          /\ reference.column \notin {schema[j].columns[d].id : d \in DOMAIN schema[j].columns}

\* C9: a schema that satisfies all six rules is never rejected.
C9_Complete ==
    (/\ Done
     /\ UniqueTableNames /\ ExtensionWellFormed /\ Acyclic
     /\ NoColumnRepeats /\ IndexesResolve /\ ReferencesResolve) => result = Ok

\* a three-table chain with an index on inherited columns and a reference was accepted
C9_Witness ==
    /\ Done /\ result = Ok /\ Len(schema) = 3
    /\ \E i \in Tables : Cardinality(Lineage(i)) = 3 /\ schema[i].indexes.some
                         /\ schema[i].columns[1].reference.some

\* C10: the diagnostics check returns are those of the earliest pass (collect,
\* extension, cycle, flattening, indexes, references) whose rule the schema
\* violates, and none of a later pass.
C10_FailFast ==
    (Done /\ result.tag = "Err") =>
        \A n \in DOMAIN result.errs : PassOf(result.errs[n]) = EarliestViolatedPass

\* C11: a call of check leaves the schema as it was handed in, in every step and
\* whatever the call returns; the table map, the flattened column map and the
\* sets of the cycle walk are built by the call and a later call starts
\* without them.
C11_AstUnchanged ==
    [][/\ schema' = schema
       /\ (pc = "done" /\ pc' # "done") =>
              /\ table_map' = EmptyMap
              /\ context' = EmptyMap
              /\ checked' = {}
              /\ visited' = {}
              /\ stack' = <<>>]_vars

\* a second call has flattened a table that inherits columns, and returned
C11_Witness ==
    /\ Done
    /\ previous # NoResult
    /\ \E n \in DOMAIN context : Cardinality(context[n]) > Len(schema[table_map[n]].columns)

\* C12: check never panics: it returns Ok, or Err with at least one
\* diagnostic. The unwrap of table_map.get in the cycle walk and in the
\* flattening walk is only reached when every parent name is a key of
\* table_map, and the expect on the flattened map in the index loop only when
\* every table name is a key of it.
C12_NeverAborts ==
    /\ result # Panic
    /\ Done => (result = Ok \/ (result.tag = "Err" /\ Len(result.errs) >= 1))
    /\ pc \in {"cyclic", "flatten", "indexes", "references"} =>
           \A i \in Tables :
               schema[i].extended_by # None => schema[i].extended_by \in DOMAIN table_map
    /\ pc \in {"indexes", "references"} => \A i \in Tables : schema[i].id \in DOMAIN context

\* accepted: a table with an indexes section that extends another table, so
\* both walks looked its parent up and the index loop looked the table up
C12_Witness ==
    /\ Done
    /\ result = Ok
    /\ \E i \in Tables : schema[i].extended_by # None /\ schema[i].indexes.some

\* C20: whenever the flattening of a table succeeds, the names of the columns
\* stored for it are exactly its own column names together with the own
\* column names of all its ancestors, whether the table is flattened before
\* its ancestors (walking the chain table by table) or after them (taking the
\* stored columns of its parent).
C20_FlattenedNames ==
    pc \in {"flatten", "indexes", "references", "done"} =>
        \A n \in DOMAIN context : Names(context[n]) = EffectiveNames(table_map[n])

\* a table with a grandparent was flattened before its parent
C20_Witness ==
    /\ pc = "flatten"
    /\ \E n \in DOMAIN context :
          LET i == table_map[n] IN
          /\ schema[i].extended_by # None
          /\ schema[i].extended_by \notin DOMAIN context
          /\ schema[table_map[schema[i].extended_by]].extended_by # None

(***************************************************************************)
(* C13: parse returns Ok exactly when the whole token sequence is one or   *)
(* more well-formed table definitions.  A source without a token (empty or *)
(* blank) is an error, a token left behind the last complete table is an   *)
(* error, and an Err carries no Schema but at least one diagnostic.        *)
(***************************************************************************)
C13_OkIffTables ==
    parsed # NotParsed =>
        /\ parsed.tag = "Ok" <=> WellFormed(lexed)
        /\ lexed = <<>> => parsed.tag = "Err"
        /\ (\E j \in TableEnds(lexed, 1) : j <= Len(lexed) /\ ~TablesUntilEnd(lexed, j))
              => parsed.tag = "Err"
        /\ parsed.tag = "Ok" => Len(parsed.schema.tables) >= 1 /\ parsed.errs = <<>>
        /\ parsed.tag = "Err" => parsed.schema = <<>> /\ Len(parsed.errs) >= 1

\* a complete table with a token left behind it was refused
C13_Witness ==
    /\ parsed.tag = "Err"
    /\ \E j \in TableEnds(lexed, 1) : j = Len(lexed)

(***************************************************************************)
(* C14 as stated: the table rule accepts the optional indexes section      *)
(* behind the closing brace of the column block, so every written-out      *)
(* program parses, wherever its indexes sections stand.                    *)
(***************************************************************************)
C14_IndexesAfterBrace ==
    (parsed # NotParsed /\ ~origin.edited) => parsed.tag = "Ok"

(***************************************************************************)
(* C14, amended: the table rule accepts the optional indexes section       *)
(* behind the last column and before the closing brace of the table.  A    *)
(* written-out program parses exactly when each of its indexes sections    *)
(* stands inside the braces of its table.                                  *)
(***************************************************************************)
C14_IndexesInsideBraces ==
    (parsed # NotParsed /\ ~origin.edited) =>
        (parsed.tag = "Ok" <=>
            \A ti \in 1..Len(origin.tables) :
                origin.tables[ti].indexes.some => origin.places[ti] = "inside")

\* a program with a composite and a single index inside the braces parsed
C14_Witness ==
    /\ parsed.tag = "Ok"
    /\ ~origin.edited
    /\ \E ti \in 1..Len(origin.tables) :
          /\ origin.tables[ti].indexes.some
          /\ Len(origin.tables[ti].indexes.items) = 2

(***************************************************************************)
(* C15: on success parse returns a Schema that mirrors the source: the     *)
(* tables and their columns in source order with attribute and reference,  *)
(* is_abstract and extended_by as written, and in the indexes field of a   *)
(* table the items of its indexes section (absent without a section).      *)
(***************************************************************************)
C15_SchemaMirrorsSource ==
    (parsed.tag = "Ok" /\ ~origin.edited) => Shape(parsed.schema) = origin.tables

(***************************************************************************)
(* C16: tokenization is total and loses nothing.  The lexer never yields a *)
(* whitespace token; every token has a span of its own inside              *)
(* [0, len(source)], the spans are strictly increasing and do not overlap; *)
(* what lies between two tokens, before the first and (once the lexer is   *)
(* at the end) behind the last is whitespace only, so every unmatched      *)
(* stretch is covered by error tokens.  A source that yields an error      *)
(* token makes parse return Err.                                           *)
(***************************************************************************)
C16_TotalTokenization ==
    /\ \A k \in 1..Len(lexed) :
          /\ lexed[k].kind # "Whitespace"
          /\ 0 <= lexed[k].span[1]
          /\ lexed[k].span[1] < lexed[k].span[2]
          /\ lexed[k].span[2] <= Len(source)
          /\ k > 1 => lexed[k - 1].span[2] <= lexed[k].span[1]
          /\ \A p \in (IF k = 1 THEN 0 ELSE lexed[k - 1].span[2]) + 1..lexed[k].span[1] :
                source[p] \in WhitespaceChars
          /\ lexed[k].kind # "Err" =>
                match(source, lexed[k].span[1] + 1) =
                    [kind |-> lexed[k].kind, len |-> lexed[k].span[2] - lexed[k].span[1]]
          /\ lexed[k].kind = "Err" =>
                \A p \in lexed[k].span[1] + 1..lexed[k].span[2] : match(source, p).kind = "Err"
    /\ pc # "tokenize" => \A p \in lexer_at(lexed) + 1..Len(source) : source[p] \in WhitespaceChars
    /\ (parsed # NotParsed /\ \E k \in 1..Len(lexed) : lexed[k].kind = "Err")
          => parsed.tag = "Err"

\* an error token between blanks and further tokens, and the parse refused
C16_Witness ==
    /\ parsed.tag = "Err"
    /\ \E k \in 2..Len(lexed) - 1 :
          /\ lexed[k].kind = "Err"
          /\ lexed[k - 1].span[2] < lexed[k].span[1]

(***************************************************************************)
(* C17: syntax and semantic diagnostics are never mixed in one list.  In   *)
(* compile and in on_change check runs only after parse returned Ok; when  *)
(* parse fails check is not run and the list reported is the list of the   *)
(* parser; a list reported after a check is the list of check.             *)
(***************************************************************************)
C17_NeverMixed ==
    /\ pc \in {"collect", "extension", "cyclic", "flatten", "indexes", "references", "done"}
          => parsed.tag = "Ok" /\ entry \in {"compile", "on_change"}
    /\ parsed.tag # "Ok" =>
          /\ result = NoResult
          /\ table_map = EmptyMap
          /\ context = EmptyMap
          /\ reported.done => reported.errs = parsed.errs
    /\ (parsed.tag = "Ok" /\ reported.done) =>
          /\ result # NoResult
          /\ reported.errs = (IF result.tag = "Err" THEN result.errs ELSE <<>>)
    /\ reported.done =>
          \/ \A k \in 1..Len(reported.errs) : reported.errs[k].msg = <<"syntax error">>
          \/ \A k \in 1..Len(reported.errs) : reported.errs[k].msg # <<"syntax error">>

\* on_change published the syntax diagnostics of a source that does not parse
C17_Witness ==
    /\ entry = "on_change"
    /\ parsed.tag = "Err"
    /\ reported.done
    /\ Len(reported.errs) >= 1

(***************************************************************************)
(* C19: parse performs no semantic validation.  A source whose tokens are  *)
(* one or more well-formed tables parses to Ok whatever it declares; a     *)
(* Schema with a duplicated table name or with a table extending an        *)
(* undeclared or a non-abstract table comes out of parse as Ok and is      *)
(* refused by check, with diagnostics that are none of the parser's.       *)
(***************************************************************************)
C19_ParseIsSyntaxOnly ==
    /\ (parsed # NotParsed /\ WellFormed(lexed)) => parsed.tag = "Ok"
    /\ (pc = "done" /\ (~UniqueTableNames \/ ~ExtensionWellFormed)) =>
          /\ parsed.tag = "Ok"
          /\ parsed.errs = <<>>
          /\ result.tag = "Err"
          /\ \A k \in 1..Len(result.errs) : result.errs[k].msg # <<"syntax error">>

\* two tables of one name, one of them extending an undeclared table, parsed
\* and were refused by check
C19_Witness ==
    /\ pc = "done"
    /\ parsed.tag = "Ok"
    /\ result.tag = "Err"
    /\ ~UniqueTableNames
    /\ \E i \in Tables : ExtendsUndeclared(i)

(***************************************************************************)
(* C18: independent calls of check do not interfere.  With two calls on    *)
(* two different schemas interleaved step by step in any order, a step of  *)
(* the running call leaves the frame of the parked call as it is, and a    *)
(* switch resumes a call with exactly the frame it was parked with: each   *)
(* call goes through the states it goes through alone, so it returns what  *)
(* it returns alone.  Its verdict is the one the rules give for its own    *)
(* schema, whatever the other call checks.                                 *)
(***************************************************************************)
C18_NoInterference ==
    /\ [][IF active' # active
          THEN other' = Running /\ Running' = other
          ELSE other' = other /\ schema' = schema]_vars
    /\ [](Done => (result = Ok <=>
                     /\ UniqueTableNames /\ ExtensionWellFormed /\ Acyclic
                     /\ IndexesResolve /\ ReferencesResolve))

\* both calls are in the middle of the cycle pass, each with its own
\* non-empty checked set
C18_Witness ==
    /\ other # NoCall
    /\ pc = "cyclic"
    /\ other.pc = "cyclic"
    /\ checked # {}
    /\ other.checked # {}
    /\ checked # other.checked

(***************************************************************************)
(* C21: the cycle pass terminates on every schema that passed the          *)
(* extension pass.  No table is popped from the walk stack twice, and when *)
(* the pass finds no cycle every table was popped exactly once.            *)
(***************************************************************************)
C21_CyclePassTerminates ==
    /\ (pc = "cyclic") ~> (pc # "cyclic")
    /\ [](\A k, l \in 1..Len(popped) : popped[k] = popped[l] => k = l)
    /\ [](pc \in {"flatten", "indexes", "references"} =>
            /\ Len(popped) = Len(schema)
            /\ \A i \in Tables : \E k \in 1..Len(popped) : popped[k] = schema[i].id)

\* the pass ended without a cycle on three tables, two of which extend the
\* same table: the second walk stopped at a table that was checked
C21_Witness ==
    /\ pc = "flatten"
    /\ Len(popped) = 3
    /\ \E i, j \in Tables :
          i # j /\ schema[i].extended_by # None /\ schema[i].extended_by = schema[j].extended_by

(***************************************************************************)
(* C22: the cycle diagnostic is deterministic and located at the revisited *)
(* table.  On a schema that passes the passes before the cycle pass and    *)
(* has one or more cycles, check returns one diagnostic, at the span of    *)
(* the first table reached for the second time on the walk from the start  *)
(* table of the smallest name among those leading into a cycle.            *)
(***************************************************************************)
\* following extended_by from i never ends
LeadsIntoCycle(i) == ~EndsIn(i, Len(schema))

\* the number of extends clauses followed from i to j
Distance(i, j) == IF i = j THEN 0 ELSE Min({k \in 1..Len(schema) : ReachedIn(i, j, k)})

\* the table leading into a cycle whose name is the smallest
FirstStart ==
    CHOOSE s \in Tables :
        /\ LeadsIntoCycle(s)
        /\ \A i \in Tables : LeadsIntoCycle(i) => NameRank(schema[s].id) <= NameRank(schema[i].id)

\* the first table on the way from s that lies on a cycle: the one the walk
\* from s comes back to
Revisited(s) ==
    CHOOSE j \in Lineage(s) :
        /\ ReachedIn(j, j, Len(schema))
        /\ \A m \in Lineage(s) : ReachedIn(m, m, Len(schema)) => Distance(s, j) <= Distance(s, m)

C22_CycleDiagnostic ==
    (Done /\ UniqueTableNames /\ ExtensionWellFormed /\ HasCycle) =>
        /\ result.tag = "Err"
        /\ Len(result.errs) = 1
        /\ result.errs[1].span = Span("table", <<Revisited(FirstStart)>>)
        /\ result.errs[1].msg =
              <<"cyclic reference happens at", schema[Revisited(FirstStart)].id>>

\* two cycles that do not meet, and a cycle diagnostic
C22_Witness ==
    /\ Done
    /\ result.tag = "Err"
    /\ UniqueTableNames
    /\ ExtensionWellFormed
    /\ \E i, j \in Tables :
          /\ ReachedIn(i, i, Len(schema))
          /\ ReachedIn(j, j, Len(schema))
          /\ ~ReachedIn(i, j, Len(schema))

(***************************************************************************)
(* C23: column redeclaration is independent of everything but names.  Two  *)
(* schemas that differ only in column types, column attributes or          *)
(* reference operators get the same outcome of check, and a column of a    *)
(* table with the name of a column it inherits is rejected whatever the    *)
(* types.                                                                  *)
(***************************************************************************)
\* a column of table i has the name of a column of a table i inherits from
RedeclaresInherited(i) ==
    \E j \in Lineage(i) \ {i} : \E c \in 1..Len(schema[i].columns) :
        \E d \in 1..Len(schema[j].columns) : schema[i].columns[c].id = schema[j].columns[d].id

C23_NamesOnly ==
    /\ (Done /\ previous # NoResult) => result.tag = previous.tag
    /\ (Done /\ \E i \in Tables : RedeclaresInherited(i)) => result.tag = "Err"

(***************************************************************************)
(* C24: on a table-name collision check returns two diagnostics: the first *)
(* at the identifier of the earlier table of that name ('declared here'),  *)
(* the second at the identifier of the redeclaring table ('but redeclared  *)
(* here'), the first table in source order with the name of a table        *)
(* before it.                                                              *)
(***************************************************************************)
\* table j has the name of a table before it
RedeclaresTable(j) == \E i \in 1..j - 1 : schema[i].id = schema[j].id

FirstRedeclaring == Min({j \in Tables : RedeclaresTable(j)})

EarlierOfName(j) == Min({i \in 1..j - 1 : schema[i].id = schema[j].id})

C24_CollisionDiagnostics ==
    (Done /\ ~UniqueTableNames) =>
        result = Err(<<Rich(Span("table.id", <<EarlierOfName(FirstRedeclaring)>>),
                            <<"table is declared here", schema[FirstRedeclaring].id>>),
                       Rich(Span("table.id", <<FirstRedeclaring>>), <<"but redeclared here">>)>>)

\* three tables, the second and the third with the name of a table before them
C24_Witness ==
    /\ Done
    /\ result.tag = "Err"
    /\ Len(schema) = 3
    /\ RedeclaresTable(2)
    /\ RedeclaresTable(3)

(***************************************************************************)
(* C25: the extension pass reports one violation and stops.  Its result is *)
(* the diagnostics of one table that violates the rule: for a table        *)
(* extending an undeclared table one diagnostic at the identifier of the   *)
(* parent in the extends clause; for a table extending a table that is not *)
(* abstract two diagnostics, at the child table ('referenced here') and    *)
(* then at the parent table ('but it's not abstract').                     *)
(***************************************************************************)
C25_ExtensionDiagnostics ==
    (Done /\ UniqueTableNames /\ ~ExtensionWellFormed) =>
        \E i \in Tables :
            \/ /\ ExtendsUndeclared(i)
               /\ result = Err(<<Rich(Span("table.extended_by", <<i>>),
                                      <<"table is not existed", schema[i].extended_by>>)>>)
            \/ \E j \in Tables :
                  /\ Extends(i, j)
                  /\ ~schema[j].is_abstract
                  /\ result = Err(<<Rich(Span("table", <<i>>),
                                         <<"table is referenced here", schema[j].id>>),
                                    Rich(Span("table", <<j>>), <<"but it's not abstract">>)>>)

\* a schema with a violation of either kind, and the two diagnostics of the
\* non-abstract parent alone
C25_Witness ==
    /\ Done
    /\ UniqueTableNames
    /\ \E i \in Tables : ExtendsUndeclared(i)
    /\ \E i \in Tables : ExtendsNonAbstract(i)
    /\ result.tag = "Err"
    /\ Len(result.errs) = 2

\* the index identifiers <<table, item, member>> that name no column of the
\* table or of its lineage
UnresolvedIndexIds ==
    {t \in Tables \X (1..2) \X (1..3) :
        /\ t[2] \in DOMAIN schema[t[1]].indexes.items
        /\ t[3] \in DOMAIN schema[t[1]].indexes.items[t[2]].ids
        /\ schema[t[1]].indexes.items[t[2]].ids[t[3]] \notin EffectiveNames(t[1])}

\* a is met before b: tables in source order, items in declaration order,
\* members left to right
MetBefore(a, b) ==
    \/ a[1] < b[1]
    \/ a[1] = b[1] /\ a[2] < b[2]
    \/ a[1] = b[1] /\ a[2] = b[2] /\ a[3] < b[3]

FirstUnresolvedIndexId ==
    CHOOSE t \in UnresolvedIndexIds : \A u \in UnresolvedIndexIds : u = t \/ MetBefore(t, u)

(***************************************************************************)
(* C26: index validation short-circuits at the first unresolved name.  On  *)
(* a schema that reaches the index validation with index identifiers that  *)
(* do not resolve, check returns exactly one diagnostic, at the span of    *)
(* the first such identifier met scanning tables in source order, items in *)
(* declaration order and composite members left to right.                  *)
(***************************************************************************)
C26_FirstUnresolvedIndex ==
    (Done /\ EarliestViolatedPass = 5) =>
        LET t == FirstUnresolvedIndexId IN
        result = Err(<<Rich(Span("index.id", <<t[1], t[2], t[3]>>),
                            <<"indexed column does not exist in table",
                              schema[t[1]].indexes.items[t[2]].ids[t[3]], schema[t[1]].id>>)>>)

\* two unresolved identifiers in one table and one more in a later table
C26_Witness ==
    /\ Done
    /\ EarliestViolatedPass = 5
    /\ \E t, u, v \in UnresolvedIndexIds : t[1] = u[1] /\ t # u /\ v[1] > t[1]
    /\ result.tag = "Err"
    /\ Len(result.errs) = 1

\* the columns <<table, position>> whose reference does not resolve
UnresolvedReferences ==
    {d \in Tables \X (1..MaxCols) :
        d[2] \in DOMAIN schema[d[1]].columns /\ ~ReferenceResolves(d[1], d[2])}

FirstUnresolvedReference ==
    CHOOSE d \in UnresolvedReferences :
        \A e \in UnresolvedReferences : d[1] < e[1] \/ (d[1] = e[1] /\ d[2] <= e[2])

TargetDeclared(d) ==
    \E j \in Tables : schema[j].id = schema[d[1]].columns[d[2]].reference.table

(***************************************************************************)
(* C27: reference validation resolves the table before the column and      *)
(* stops at the first failure.  On a schema that reaches the reference     *)
(* validation with references that do not resolve, check returns exactly   *)
(* one diagnostic for the first such reference, tables in source order and *)
(* own columns in order: at the span of the whole reference when the       *)
(* target table is undeclared, else at the referenced column identifier.   *)
(***************************************************************************)
C27_FirstUnresolvedReference ==
    (Done /\ EarliestViolatedPass = 6) =>
        LET d == FirstUnresolvedReference
            reference == schema[d[1]].columns[d[2]].reference
        IN result = Err(<<IF ~TargetDeclared(d)
                          THEN Rich(Span("reference", <<d[1], d[2]>>),
                                    <<"table is not exist in the schema", reference.table>>)
                          ELSE Rich(Span("reference.column", <<d[1], d[2]>>),
                                    <<"column is not existed in the table",
                                      reference.column, reference.table>>)>>)

\* a reference to a missing column of a declared table, met before a reference
\* to an undeclared table
C27_Witness ==
    /\ Done
    /\ EarliestViolatedPass = 6
    /\ TargetDeclared(FirstUnresolvedReference)
    /\ \E e \in UnresolvedReferences : ~TargetDeclared(e)
    /\ result.tag = "Err"
    /\ Len(result.errs) = 1

\* the node of the parsed Schema sch a span of check stands for exists
IsNode(sch, span) ==
    /\ span.node \in {"table", "table.id", "table.extended_by", "column", "reference",
                      "reference.column"}
    /\ span.at[1] \in DOMAIN sch.tables
    /\ span.node = "table.extended_by" => sch.tables[span.at[1]].extended_by.some
    /\ span.node \in {"column", "reference", "reference.column"} =>
          /\ span.at[2] \in DOMAIN sch.tables[span.at[1]].columns
          /\ span.node # "column" =>
                sch.tables[span.at[1]].columns[span.at[2]].reference.some

\* the byte range the parser gave that node
ByteSpan(sch, span) ==
    LET table == sch.tables[span.at[1]] IN
    CASE span.node = "table" -> table.span
      [] span.node = "table.id" -> table.id.span
      [] span.node = "table.extended_by" -> table.extended_by.value.span
      [] span.node = "column" -> table.columns[span.at[2]].span
      [] span.node = "reference" -> table.columns[span.at[2]].reference.value.span
      [] OTHER -> table.columns[span.at[2]].reference.value.column.span

(***************************************************************************)
(* C28: every diagnostic returned by check is resolvable to source         *)
(* coordinates.  Its span is the span of a node of the Schema that was     *)
(* parsed from the source and checked, and that span is a byte range       *)
(* <<start, end>> with 0 <= start <= end <= len(source).                   *)
(***************************************************************************)
C28_SpansInSource ==
    (entry # "check" /\ result.tag = "Err") =>
        \A k \in 1..Len(result.errs) :
            /\ IsNode(parsed.schema, result.errs[k].span)
            /\ LET range == ByteSpan(parsed.schema, result.errs[k].span) IN
               0 <= range[1] /\ range[1] <= range[2] /\ range[2] <= Len(source)

\* two diagnostics, the second at a table that ends with the source
C28_Witness ==
    /\ entry # "check"
    /\ result.tag = "Err"
    /\ Len(result.errs) = 2
    /\ result.errs[2].span.node = "table"
    /\ ByteSpan(parsed.schema, result.errs[2].span)[2] = Len(source)

\* the schema breaks a rule that every run of check enforces (C4..C8)
CheckRejects ==
    ~(UniqueTableNames /\ ExtensionWellFormed /\ Acyclic /\ IndexesResolve /\ ReferencesResolve)

(***************************************************************************)
(* C29: the output file is written only after both parse and check have    *)
(* succeeded.  A run of compile that wrote the file parsed the source and  *)
(* got Ok from check, a run that reported diagnostics wrote nothing, and   *)
(* no run at all writes output for a schema that check rejects.            *)
(***************************************************************************)
C29_WrittenOnlyChecked ==
    /\ (entry = "compile" /\ written) => (parsed.tag = "Ok" /\ result = Ok)
    /\ (entry = "compile" /\ reported # NotReported) => ~written
    /\ written => ~CheckRejects

\* the notification carries a text: a did_open, or a did_change with at
\* least one content change
CarriesText(n) == n.method = "did_open" \/ n.content_changes # <<>>

\* the text of the document after the notification: each content change is
\* the full text, so the last one stands
NewText(n) ==
    IF n.method = "did_open" THEN n.text ELSE n.content_changes[Len(n.content_changes)]

Changes == SelectSeq(received, CarriesText)

ChangesOf(uri) == {k \in 1..Len(Changes) : Changes[k].uri = uri}

Latest(S) == CHOOSE x \in S : \A y \in S : y <= x

(***************************************************************************)
(* C30: in the editor service every did_open, and every did_change with at *)
(* least one content change, stores the new text under the uri and then    *)
(* publishes exactly one diagnostics list for that uri, empty exactly when *)
(* the text parses and passes check.  Once the handlers have run, the      *)
(* stored text of a document is that of its latest change, and the list    *)
(* published last for it is empty when that text is fine.                  *)
(***************************************************************************)
C30_EditorService ==
    pc = "idle" =>
        /\ Len(published) = Len(Changes)
        /\ \A k \in 1..Len(published) : published[k].uri = Changes[k].uri
        /\ \A uri \in Uris :
              IF ChangesOf(uri) = {} THEN uri \notin DOMAIN document_map
              ELSE /\ uri \in DOMAIN document_map
                   /\ document_map[uri] = NewText(Changes[Latest(ChangesOf(uri))])
        /\ published # <<>> =>
              /\ source = document_map[published[Len(published)].uri]
              /\ published[Len(published)].diagnostics = <<>>
                    <=> (parsed.tag = "Ok" /\ result = Ok)

====
